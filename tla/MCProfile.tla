------------------------------ MODULE MCProfile ------------------------------
(***************************************************************************)
(* Instance of Profile for TLC: three curve tags that may share a body and  *)
(* admit a second type with no builtin decoder (as the Monaco curve type),  *)
(* an array tag with an element floor, a tag whose only type has no builtin *)
(* decoder (MHC2), and a private tag known only to a plug-in's context.     *)
(***************************************************************************)
EXTENDS Profile

CONSTANTS rTRC, gTRC, bTRC, chad, mhc2, priv,
          curv, sf32, mhcType, privType, p1, p2, d1, d2

MCSig == {rTRC, gTRC, bTRC, chad, mhc2, priv}
MCType == {curv, sf32, mhcType, privType}
MCBuiltinTypes == {curv, sf32}
MCArrayWidth == [t \in MCType |-> IF t = sf32 THEN 4 ELSE 0]
Row(n, types) == [elem_count |-> n, allowed_types |-> types]
MCDescriptor ==
    [s \in MCSig |->
        CASE s \in {rTRC, gTRC, bTRC} -> Row(1, <<curv, privType>>)
          [] s = chad -> Row(3, <<sf32>>)
          [] s = mhc2 -> Row(1, <<mhcType>>)
          [] s = priv -> NoDescriptor]

\* One caller registers the private tag and both types, another only MHC2.
Registered ==
    [tags |-> <<[sig |-> priv, supported_types |-> <<privType, curv>>]>>,
     tag_types |-> <<[type |-> privType, plugin |-> p1], [type |-> mhcType, plugin |-> p1],
                     [type |-> curv, plugin |-> p1]>>]
OnlyMhc2 == [tags |-> <<>>, tag_types |-> <<[type |-> mhcType, plugin |-> p2]>>]
MCContexts == {EmptyContext, Registered, OnlyMhc2}

SigOrders == {<<rTRC, gTRC, bTRC>>, <<rTRC, chad, gTRC>>, <<priv, rTRC, gTRC>>,
              <<mhc2, priv, bTRC>>, <<chad, mhc2, rTRC>>}
RangeOrders == {<< <<200, 16>>, <<200, 16>>, <<200, 16>> >>,
                << <<200, 16>>, <<240, 20>>, <<200, 16>> >>,
                << <<240, 20>>, <<240, 20>>, <<296, 4>> >>}

BlockAt(type, data) ==
    [type |-> type, data |-> data, length |-> 8,
     decoders |-> IF type = mhcType THEN {p1} ELSE {Builtin, p1, p2}]
Rotten(block) == [block EXCEPT !.decoders = {}]

Content(a, b) == [o \in {200, 240, 296} |-> IF o = 240 THEN BlockAt(b, d2) ELSE BlockAt(a, d1)]
Contents == {Content(a, b) : a, b \in MCType}
            \cup {[Content(curv, sf32) EXCEPT ![200] = Rotten(@)]}

FileOf(sigs, ranges, content) ==
    [headerOk |-> TRUE, size |-> 300, len |-> 300, count |-> 3, blocks |-> content,
     table |-> [i \in 1..3 |-> [sig |-> sigs[i], offset |-> ranges[i][1],
                                size |-> ranges[i][2]]]]

MCFiles == {FileOf(s, r, c) : s \in SigOrders, r \in RangeOrders, c \in Contents}

=============================================================================
