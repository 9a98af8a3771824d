----------------------------- MODULE MCDirectory -----------------------------
(***************************************************************************)
(* Instance of Directory for TLC: two compatible curve tags and a third to  *)
(* make a chain, a tag with another row, and a tag without one; ranges that *)
(* are shared, nested, empty, outside, and that wrap around u32.            *)
(***************************************************************************)
EXTENDS Directory

CONSTANTS rTRC, gTRC, bTRC, wtpt, priv, curv, para, xyz

MCSig == {rTRC, gTRC, bTRC, wtpt, priv}
MCType == {curv, para, xyz}
MCDescriptor ==
    [s \in MCSig |->
        CASE s \in {rTRC, gTRC, bTRC} -> [elem_count |-> 1, allowed_types |-> <<curv, para>>]
          [] s = wtpt -> [elem_count |-> 1, allowed_types |-> <<xyz>>]
          [] s = priv -> NoDescriptor]

Ranges == {<<0, 8>>, <<176, 8>>, <<176, 16>>, <<240, 40>>}
MCRaw == {[sig |-> s, offset |-> r[1], size |-> r[2]] : s \in MCSig, r \in Ranges}

Tables == UNION {[1..n -> MCRaw] : n \in 0..2}
          \cup [1..3 -> {e \in MCRaw : e.offset = 176 /\ e.sig # wtpt}]

Whole(t) == [headerOk |-> TRUE, size |-> 255, len |-> 192, count |-> Len(t), table |-> t]

\* Damaged files: a header that lies about the size, a short slice, a count
\* past the limit, a slice cut inside the directory.
Damaged(t) ==
    {[Whole(t) EXCEPT !.size = 185],
     [Whole(t) EXCEPT !.len = 300],
     [Whole(t) EXCEPT !.len = 150],
     [Whole(t) EXCEPT !.count = 4],
     [Whole(t) EXCEPT !.headerOk = FALSE]}

MCFiles == {Whole(t) : t \in Tables}
           \cup UNION {{f \in Damaged(t) : IsFile(f)} : t \in {u \in Tables : Len(u) = 2}}

=============================================================================
