--------------------------- MODULE Profile_proofs ---------------------------
(***************************************************************************)
(* Proofs about Directory and Profile, for every file, table and set of     *)
(* contexts: the directory loop keeps only entries that lie in the file and *)
(* implements the fold over the table; the link chase is sound, and the     *)
(* decoded-value cache is invisible for tags plug-ins have no say in.       *)
(***************************************************************************)
EXTENDS Profile, IndexLemmas

(***************************************************************************)
(* The directory loop.                                                      *)
(***************************************************************************)

-----------------------------------------------------------------------------
\* The entry the loop links to is the last candidate, when there is one.
LEMMA LinkOfIsCandidate ==
    ASSUME NEW es \in Seq(TagEntry), NEW e \in RawEntry
    PROVE  LET c == LinkCandidates(es, e)
           IN  IF c = {} THEN LinkOf(es, e) = NoLink
               ELSE \E j \in c : LinkOf(es, e) = es[j].sig
<1> DEFINE c == LinkCandidates(es, e)
<1>1. CASE c = {}  BY <1>1 DEF LinkOf
<1>2. CASE c # {}
  <2>1. c \in SUBSET (1..Len(es)) /\ Len(es) \in Nat
    BY DEF LinkCandidates
  <2>2. Max(c) \in c
    <3> HIDE DEF c
    <3>  QED  BY <2>1, <1>2, LastIndex
  <2>  QED  BY <1>2, <2>2, Zenon DEF LinkOf
<1>  QED  BY <1>1, <1>2

LEMMA AcceptedType ==
    ASSUME NEW es \in Seq(TagEntry), NEW e \in RawEntry
    PROVE  Accepted(es, e) \in TagEntry
<1>1. LinkOf(es, e) \in Sig \cup {NoLink}
  <2>1. CASE LinkCandidates(es, e) = {}  BY <2>1, LinkOfIsCandidate
  <2>2. CASE LinkCandidates(es, e) # {}
    <3>1. PICK j \in LinkCandidates(es, e) : LinkOf(es, e) = es[j].sig
      BY <2>2, LinkOfIsCandidate
    <3>2. es[j] \in TagEntry  BY <3>1 DEF LinkCandidates
    <3>  QED  BY <3>1, <3>2 DEF TagEntry
  <2>  QED  BY <2>1, <2>2
<1>  QED  BY <1>1 DEF Accepted, RawEntry, TagEntry

\* An entry that is not dropped lies inside the file, in unbounded arithmetic.
LEMMA KeptInBounds ==
    ASSUME NEW f, IsFile(f), NEW e \in RawEntry, ~Dropped(f, e)
    PROVE  e.offset > 0 /\ e.size > 0 /\ e.offset + e.size <= f.len
<1>1. U32 \in Nat \ {0}  BY FileAssumption
<1>2. /\ e.offset \in 0..U32Max
      /\ e.size \in 0..U32Max
  BY DEF RawEntry
<1>3. f.len \in Nat /\ f.size \in 0..U32Max  BY DEF IsFile
<1>  HIDE DEF IsFile
<1>  QED
  BY <1>1, <1>2, <1>3
  DEF Dropped, WrappingAdd, HeaderClamped, LesserOf, U32Max

-----------------------------------------------------------------------------
NoTwins == phase = "open" => ~HasDuplicate(entries)

\* The invariant of the loop, inductive with every action of Directory.
DirInv ==
    /\ TypeOK
    /\ EntriesInBounds
    /\ LinksPointBack
    /\ NoTwins

LEMMA DirInit == Init => DirInv
  BY DEF Init, DirInv, TypeOK, EntriesInBounds, LinksPointBack, NoTwins

LEMMA DirOpen ==
    ASSUME NEW f, IsFile(f), Open(f)
    PROVE  DirInv'
<1>2. TypeOK'  BY DEF Open, TypeOK
<1>3. entries' = <<>> /\ phase' # "open"  BY DEF Open
<1>  QED
  BY <1>2, <1>3 DEF DirInv, EntriesInBounds, LinksPointBack, NoTwins

LEMMA DirParseEntry ==
    ASSUME DirInv, ParseEntry
    PROVE  DirInv'
<1> DEFINE e == file.table[seen + 1]
           new == Accepted(entries, e)
<1>1. /\ IsFile(file)
      /\ seen \in Nat
      /\ entries \in Seq(TagEntry)
  BY DEF DirInv, TypeOK, ParseEntry
<1>2. e \in RawEntry
  <2>1. file.count \in Nat /\ seen + 1 \in 1..file.count
    BY <1>1, FileAssumption DEF IsFile, U32Max, ParseEntry
  <2>2. EntryAt((seen + 1) + 1) <= file.len
    BY <1>1 DEF ParseEntry, EntryAt, DirStart
  <2>3. seen + 1 \in DOMAIN file.table  BY <1>1, <2>1, <2>2 DEF IsFile
  <2>  QED  BY <1>1, <2>3 DEF IsFile
<1>3. CASE Dropped(file, e)
  <2>1. entries' = entries /\ phase' = phase /\ file' = file /\ seen' = seen + 1
    BY <1>3 DEF ParseEntry
  <2>  QED
    BY <1>1, <2>1
    DEF DirInv, TypeOK, EntriesInBounds, LinksPointBack, NoTwins
<1>4. CASE ~Dropped(file, e)
  <2>1. entries' = Append(entries, new) /\ phase' = "parsing" /\ file' = file /\ seen' = seen + 1
    BY <1>4 DEF ParseEntry
  <2>2. new \in TagEntry  BY <1>1, <1>2, AcceptedType
  <2>3. /\ DOMAIN entries' = 1..(Len(entries) + 1)
        /\ \A i \in 1..Len(entries) : entries'[i] = entries[i]
        /\ entries'[Len(entries) + 1] = new
        /\ Len(entries) \in Nat
        /\ DOMAIN entries = 1..Len(entries)
    <3> HIDE DEF new
    <3>  QED  BY <1>1, <2>1, <2>2
  <2>4. TypeOK'
    <3> HIDE DEF new
    <3>  QED  BY <1>1, <2>1, <2>2 DEF TypeOK
  <2>5. EntriesInBounds'
    <3>1. new.offset = e.offset /\ new.size = e.size  BY DEF Accepted
    <3>2. new.offset > 0 /\ new.size > 0 /\ new.offset + new.size <= file.len
      BY <1>1, <1>2, <1>4, <3>1, KeptInBounds
    <3> HIDE DEF new
    <3>3. EntriesInBounds  BY DEF DirInv
    <3> SUFFICES ASSUME NEW i \in 1..(Len(entries) + 1)
                 PROVE  /\ entries'[i].offset > 0
                        /\ entries'[i].size > 0
                        /\ entries'[i].offset + entries'[i].size <= file.len
      BY <2>1, <2>3 DEF EntriesInBounds
    <3>4. CASE i \in 1..Len(entries)  BY <3>3, <3>4, <2>3 DEF EntriesInBounds
    <3>5. CASE i = Len(entries) + 1  BY <3>2, <3>5, <2>3
    <3>  QED  BY <3>4, <3>5, <2>3
  <2>6. LinksPointBack'
    <3>1. LinksPointBack  BY DEF DirInv
    <3> DEFINE Back(es, i) ==
                 {j \in 1..(i - 1) : /\ SameRange(es[j], es[i])
                                    /\ CompatibleTypes(es[j].sig, es[i].sig)}
               Good(es, i) == IF es[i].linked = NoLink THEN Back(es, i) = {}
                              ELSE \E j \in Back(es, i) : es[j].sig = es[i].linked
    <3>2. ASSUME NEW i \in 1..Len(entries)  PROVE Good(entries', i)
      <4>1. Good(entries, i)  BY <3>1, <3>2, <2>3 DEF LinksPointBack
      <4>2. \A j \in 1..i : entries'[j] = entries[j]  BY <2>3, <3>2
      <4>3. i \in 1..i /\ (1..(i - 1)) \subseteq 1..i  BY <3>2
      <4>4. Back(entries', i) = Back(entries, i)  BY <4>2, <4>3
      <4>5. \A j \in Back(entries, i) : entries'[j] = entries[j]  BY <4>2, <4>3
      <4>  QED  BY <4>1, <4>2, <4>3, <4>4, <4>5
    <3>3. Good(entries', Len(entries) + 1)
      <4> SUFFICES ASSUME NEW n, n = Len(entries) + 1  PROVE Good(entries', n)
        OBVIOUS
      <4>1. /\ new.sig = e.sig /\ new.offset = e.offset /\ new.size = e.size
            /\ new.linked = LinkOf(entries, e)
        BY DEF Accepted
      <4>2. 1..(n - 1) = 1..Len(entries)  BY <2>3
      <4>3. Back(entries', n) = LinkCandidates(entries, e)
        <5> HIDE DEF new
        <5>  QED  BY <2>3, <4>1, <4>2 DEF LinkCandidates, SameRange
      <4>4. \A j \in LinkCandidates(entries, e) : entries'[j].sig = entries[j].sig
        BY <2>3 DEF LinkCandidates
      <4>5. \A j \in DOMAIN entries : entries[j].sig # NoLink
        <5>1. \A j \in DOMAIN entries : entries[j].sig \in Sig
          <6>1. \A j \in DOMAIN entries : entries[j] \in TagEntry  BY <1>1
          <6>  QED  BY <6>1 DEF TagEntry
        <5>2. NoLink \notin Sig  BY DirectoryAssumption
        <5>  QED  BY <5>1, <5>2, Zenon
      <4>6. \A j \in LinkCandidates(entries, e) : entries[j].sig # NoLink
        BY <4>5 DEF LinkCandidates
      <4>7. entries'[n].linked = LinkOf(entries, e)  BY <2>3, <4>1, Zenon
      <4>  HIDE DEF new
      <4>8. CASE LinkCandidates(entries, e) = {}
        <5>1. LinkOf(entries, e) = NoLink  BY <1>1, <1>2, <4>8, LinkOfIsCandidate
        <5>  QED  BY <5>1, <4>8, <4>3, <4>7
      <4>9. CASE LinkCandidates(entries, e) # {}
        <5>1. PICK j \in LinkCandidates(entries, e) : LinkOf(entries, e) = entries[j].sig
          BY <1>1, <1>2, <4>9, LinkOfIsCandidate
        <5>  QED  BY <5>1, <4>3, <4>4, <4>6, <4>7
      <4>  QED  BY <4>8, <4>9
    <3>4. \A i \in DOMAIN entries' : Good(entries', i)
      <4> HIDE DEF Good, new
      <4>1. \A i \in 1..(Len(entries) + 1) : i \in 1..Len(entries) \/ i = Len(entries) + 1
        BY <2>3
      <4>  QED  BY <2>3, <3>2, <3>3, <4>1
    <3>  QED  BY <3>4 DEF LinksPointBack
  <2>7. NoTwins'  BY <2>1 DEF NoTwins
  <2>  QED  BY <2>4, <2>5, <2>6, <2>7 DEF DirInv
<1>  QED  BY <1>3, <1>4

LEMMA DirTruncated ==
    ASSUME DirInv, Truncated
    PROVE  DirInv'
  BY DEF DirInv, TypeOK, EntriesInBounds, LinksPointBack, NoTwins, Truncated

LEMMA DirFinish ==
    ASSUME DirInv, FinishDirectory
    PROVE  DirInv'
  BY DEF DirInv, TypeOK, EntriesInBounds, LinksPointBack, NoTwins, FinishDirectory

LEMMA DirStutter ==
    ASSUME DirInv, UNCHANGED dirVars
    PROVE  DirInv'
  BY DEF DirInv, TypeOK, EntriesInBounds, LinksPointBack, NoTwins, dirVars

-----------------------------------------------------------------------------
LEMMA DirParseStep == ASSUME DirInv, ParseStep  PROVE DirInv'
  BY DirParseEntry, DirTruncated, DirFinish DEF ParseStep

LEMMA DirNext == ASSUME DirInv, [Next]_dirVars  PROVE DirInv'
<1>1. ASSUME NEW f \in Files, Open(f)  PROVE DirInv'
  BY <1>1, DirOpen, FileAssumption
<1>2. CASE ParseStep  BY <1>2, DirParseStep
<1>3. CASE UNCHANGED dirVars  BY <1>3, DirStutter
<1>  QED  BY <1>1, <1>2, <1>3 DEF Next

THEOREM DirInvariant == Spec => []DirInv
<1>1. DirInv /\ [Next]_dirVars => DirInv'  BY DirNext
<1>  QED  BY <1>1, DirInit, PTL DEF Spec

(***************************************************************************)
(* For every file and every descriptor table, the directory loop keeps its  *)
(* variables well typed.                                                    *)
(***************************************************************************)
THEOREM DirectoryTypeCorrect == Spec => []TypeOK
<1>1. DirInv => TypeOK  BY DEF DirInv
<1>  QED  BY <1>1, DirInvariant, PTL

(***************************************************************************)
(* For every word width and every file, an accepted entry is a non-empty    *)
(* range inside the file: no wrapped sum gets one past the end.             *)
(***************************************************************************)
THEOREM AcceptedEntriesInBounds == Spec => []EntriesInBounds
<1>1. DirInv => EntriesInBounds  BY DEF DirInv
<1>  QED  BY <1>1, DirInvariant, PTL

(***************************************************************************)
(* For every directory, links point strictly back to compatible entries     *)
(* over the same bytes, and every entry that could be a link is one.        *)
(***************************************************************************)
THEOREM LinksAlwaysPointBack == Spec => []LinksPointBack
<1>1. DirInv => LinksPointBack  BY DEF DirInv
<1>  QED  BY <1>1, DirInvariant, PTL

-----------------------------------------------------------------------------
\* tag_entry finds the first entry with the signature, and only that.
LEMMA TagEntryOfFirst ==
    ASSUME NEW R, NEW es \in Seq(R), NEW sig
    PROVE  LET r == TagEntryOf(es, sig)
           IN  /\ r \in 0..Len(es)
               /\ r # 0 => r \in DOMAIN es /\ es[r].sig = sig
               /\ \A j \in DOMAIN es : es[j].sig = sig => r # 0 /\ r <= j
<1> DEFINE at == {i \in DOMAIN es : es[i].sig = sig}
<1>1. at \in SUBSET (1..Len(es)) /\ Len(es) \in Nat /\ DOMAIN es = 1..Len(es)
  OBVIOUS
<1>2. CASE at = {}  BY <1>1, <1>2 DEF TagEntryOf
<1>3. CASE at # {}
  <2>1. Min(at) \in at /\ \A k \in at : Min(at) <= k
    <3> HIDE DEF at
    <3>  QED  BY <1>1, <1>3, FirstIndex
  <2>2. TagEntryOf(es, sig) = Min(at)  BY <1>3, Zenon DEF TagEntryOf
  <2>3. /\ Min(at) \in 1..Len(es)
        /\ es[Min(at)].sig = sig
        /\ \A j \in DOMAIN es : es[j].sig = sig => Min(at) <= j
    BY <2>1, <1>1, Zenon
  <2>  HIDE DEF at
  <2>  QED  BY <1>1, <2>2, <2>3
<1>  QED  BY <1>2, <1>3

\* Without twins the entry with a signature is the only one.
LEMMA TagEntryOfUnique ==
    ASSUME NEW R, NEW es \in Seq(R), ~HasDuplicate(es), NEW j \in DOMAIN es
    PROVE  TagEntryOf(es, es[j].sig) = j
<1> DEFINE r == TagEntryOf(es, es[j].sig)
<1>1. r \in DOMAIN es /\ es[r].sig = es[j].sig  BY TagEntryOfFirst
<1>  QED  BY <1>1, Zenon DEF HasDuplicate

\* Where a link leads, on an opened profile.
LEMMA LinkTarget ==
    ASSUME DirInv, phase = "open", NEW i \in DOMAIN entries, entries[i].linked # NoLink
    PROVE  LET j == TagEntryOf(entries, entries[i].linked)
           IN  /\ j \in 1..(i - 1)
               /\ j \in DOMAIN entries
               /\ SameRange(entries[j], entries[i])
               /\ CompatibleTypes(entries[j].sig, entries[i].sig)
<1>1. entries \in Seq(TagEntry) /\ ~HasDuplicate(entries)
  BY DEF DirInv, TypeOK, NoTwins
<1>2. PICK j \in 1..(i - 1) :
        /\ SameRange(entries[j], entries[i])
        /\ CompatibleTypes(entries[j].sig, entries[i].sig)
        /\ entries[j].sig = entries[i].linked
  BY DEF DirInv, LinksPointBack
<1>3. j \in DOMAIN entries
  <2>1. i \in 1..Len(entries) /\ Len(entries) \in Nat /\ DOMAIN entries = 1..Len(entries)  BY <1>1
  <2>  QED  BY <2>1
<1>4. TagEntryOf(entries, entries[j].sig) = j  BY <1>1, <1>3, TagEntryOfUnique
<1>  QED  BY <1>2, <1>3, <1>4

LEMMA CompatibleTrans ==
    ASSUME NEW a \in Sig, NEW b \in Sig, NEW c \in Sig,
           CompatibleTypes(a, b), CompatibleTypes(b, c)
    PROVE  CompatibleTypes(a, c)
  BY DEF CompatibleTypes

LEMMA CompatibleSym ==
    ASSUME NEW a \in Sig, NEW b \in Sig, CompatibleTypes(a, b)
    PROVE  CompatibleTypes(b, a)
  BY DEF CompatibleTypes

-----------------------------------------------------------------------------
\* The recursion that defines the chase has a solution, so Chase is one: rows
\* of it exist up to any number of iterations.
LEMMA ChaseDef == ASSUME NEW R, NEW es \in Seq(R)
  PROVE Chase(es) = [n \in 0..Len(es) |->  [i \in 0..Len(es) |->
                IF n = 0 \/ i = 0 THEN i
                ELSE IF es[i].linked = NoLink THEN i
                ELSE Chase(es)[n - 1][TagEntryOf(es, es[i].linked)]]]
<1> DEFINE L == Len(es)
           next(i) == TagEntryOf(es, es[i].linked)
           step(row, n) == [i \in 0..L |-> IF n = 0 \/ i = 0 THEN i
                                     ELSE IF es[i].linked = NoLink THEN i ELSE row[next(i)]]
           P(g) == g = [n \in 0..L |-> step(g[n - 1], n)]
<1>1. \E g : P(g)
  <2> DEFINE Good(m) == \E g \in [0..m -> [0..L -> 0..L]] : \A n \in 0..m : g[n] = step(g[n-1], n)
             S == {m \in 0..L : Good(m)}
  <2>0. L \in Nat OBVIOUS
  <2>0a. \A i \in 1..L : next(i) \in 0..L BY TagEntryOfFirst
  <2>1. Good(0)
    <3> DEFINE g == [n \in 0..0 |-> [i \in 0..L |-> i]]
    <3>1. g \in [0..0 -> [0..L -> 0..L]] OBVIOUS
    <3>2. \A n \in 0..0 : g[n] = step(g[n-1], n) OBVIOUS
    <3> HIDE DEF g
    <3> QED BY <3>1, <3>2
  <2>2. ASSUME NEW m \in 0..L, m # L, Good(m) PROVE Good(m + 1)
    <3>1. PICK g \in [0..m -> [0..L -> 0..L]] : \A n \in 0..m : g[n] = step(g[n-1], n) BY <2>2
    <3> DEFINE h == [n \in 0..(m+1) |-> IF n <= m THEN g[n] ELSE step(g[m], n)]
    <3>2. \A n \in 0..(m + 1) : n \in 0..m \/ n = m + 1 BY <2>0
    <3>3. step(g[m], m + 1) \in [0..L -> 0..L]
      <4>1. g[m] \in [0..L -> 0..L] BY <2>0
      <4> QED BY <4>1, <2>0a
    <3>4. h \in [0..(m+1) -> [0..L -> 0..L]] BY <3>2, <3>3
    <3>5. ASSUME NEW n \in 0..(m+1) PROVE h[n] = step(h[n-1], n)
      <4>1. CASE n \in 1..m 
        <5>1. h[n] = g[n] /\ h[n-1] = g[n-1] BY <4>1, <2>0
        <5> QED BY <3>1, <4>1, <5>1
      <4>2. CASE n = m + 1 
        <5>1. h[n - 1] = g[m] BY <4>2, <2>0
        <5>2. h[n] = step(g[m], n) BY <4>2, <2>0
        <5> HIDE DEF h, step
        <5> QED BY <5>1, <5>2
      <4>3. CASE n = 0 
        <5>1. h[n] = g[n] BY <4>3, <2>0
        <5>2. g[n] = [i \in 0..L |-> i] BY <4>3, <3>1, <2>0
        <5>3. step(h[n - 1], n) = [i \in 0..L |-> i] BY <4>3
        <5> QED BY <5>1, <5>2, <5>3
      <4> QED BY <4>1, <4>2, <4>3, <3>2
    <3> HIDE DEF h
    <3> QED BY <3>4, <3>5
  <2>3. 0..L \subseteq S
    <3>1. 0 \in S BY <2>0, <2>1
    <3>2. ASSUME NEW k \in 0..L, k # L, k \in S PROVE k + 1 \in S
      <4>1. Good(k + 1) BY <3>2, <2>2
      <4>2. k + 1 \in 0..L BY <3>2, <2>0
      <4> QED BY <4>1, <4>2
    <3> HIDE DEF S, L
    <3> QED BY <2>0, <3>1, <3>2, IntervalInduction
  <2>4. Good(L)
    <3>1. L \in 0..L BY <2>0
    <3> HIDE DEF L, Good
    <3> QED BY <3>1, <2>3
  <2>5. PICK g \in [0..L -> [0..L -> 0..L]] : \A n \in 0..L : g[n] = step(g[n-1], n) BY <2>4
  <2>6. P(g) BY <2>5
  <2> QED BY <2>6
<1>2. Chase(es) = CHOOSE g : P(g) BY DEF Chase
<1>3. P(Chase(es)) BY <1>1, <1>2
<1> QED BY <1>3

LEMMA ChaseStep ==
    ASSUME NEW R, NEW es \in Seq(R), NEW n \in 0..Len(es), NEW i \in 0..Len(es)
    PROVE  Chase(es)[n][i] = IF n = 0 \/ i = 0 THEN i
                             ELSE IF es[i].linked = NoLink THEN i
                             ELSE Chase(es)[n - 1][TagEntryOf(es, es[i].linked)]
<1> DEFINE C == Chase(es)
           Row(m) == [k \in 0..Len(es) |->
                        IF m = 0 \/ k = 0 THEN k
                        ELSE IF es[k].linked = NoLink THEN k
                        ELSE C[m - 1][TagEntryOf(es, es[k].linked)]]
<1>1. C = [m \in 0..Len(es) |-> Row(m)]  BY ChaseDef
<1>2. C[n] = Row(n)
  <2> HIDE DEF C, Row
  <2>  QED  BY <1>1
<1>  HIDE DEF C
<1>3. C[n][i] = IF n = 0 \/ i = 0 THEN i
                ELSE IF es[i].linked = NoLink THEN i
                ELSE C[n - 1][TagEntryOf(es, es[i].linked)]
  BY <1>2
<1>  QED  BY <1>3, Zenon DEF C

\* A search from entry i, allowed at least i iterations, ends at an entry that
\* holds data, at or before i, over the same bytes and with the same row.
EndsAtData(r, i) ==
    /\ r \in 1..i
    /\ r \in DOMAIN entries
    /\ entries[r].linked = NoLink
    /\ SameRange(entries[r], entries[i])
    /\ r # i => CompatibleTypes(entries[r].sig, entries[i].sig)

LEMMA ChaseReachesData ==
    ASSUME DirInv, phase = "open", NEW i \in DOMAIN entries
    PROVE  EndsAtData(SearchTag(entries, entries[i].sig), i)
<1> DEFINE L == Len(entries)
           C == Chase(entries)
           next(k) == TagEntryOf(entries, entries[k].linked)
           S == {n \in 0..L : \A k \in 1..n : EndsAtData(C[n][k], k)}
<1>1. /\ entries \in Seq(TagEntry) /\ ~HasDuplicate(entries)
      /\ L \in Nat /\ DOMAIN entries = 1..L
  BY DEF DirInv, TypeOK, NoTwins
<1>1a. \A n \in 0..L : n # L => n + 1 \in 0..L /\ (\A k \in 1..(n + 1) : k \in 1..L)
  <2> HIDE DEF L
  <2>  QED  BY <1>1
<1>2. \A n \in 0..L, k \in 0..L :
        C[n][k] = IF n = 0 \/ k = 0 THEN k
                  ELSE IF entries[k].linked = NoLink THEN k
                  ELSE C[n - 1][next(k)]
  BY <1>1, ChaseStep
<1>3. 0 \in S  BY <1>1
<1>4. ASSUME NEW n \in 0..L, n # L, n \in S, NEW k \in 1..(n + 1)
      PROVE  EndsAtData(C[n + 1][k], k)
  <2>1. n + 1 \in 0..L /\ k \in 0..L /\ k \in DOMAIN entries /\ n + 1 # 0 /\ k # 0
    <3>1. n + 1 \in 0..L /\ k \in 1..L  BY <1>1a, <1>4
    <3> HIDE DEF L
    <3>  QED  BY <1>1, <1>4, <3>1
  <2>2. CASE entries[k].linked = NoLink
    <3>1. C[n + 1][k] = k  BY <1>2, <2>1, <2>2
    <3>2. k \in 1..k /\ SameRange(entries[k], entries[k])  BY <2>1 DEF SameRange
    <3>  QED  BY <2>1, <2>2, <3>1, <3>2 DEF EndsAtData
  <2>3. CASE entries[k].linked # NoLink
    <3> DEFINE j == next(k)
    <3>1. /\ j \in 1..(k - 1) /\ j \in DOMAIN entries
          /\ SameRange(entries[j], entries[k])
          /\ CompatibleTypes(entries[j].sig, entries[k].sig)
      BY <2>1, <2>3, LinkTarget
    <3>2. C[n + 1][k] = C[n][j]
      <4>1. (n + 1) - 1 = n  BY <1>4
      <4>  QED  BY <1>2, <2>1, <2>3, <4>1
    <3>3. j \in 1..n  BY <3>1, <1>4
    <3>  HIDE DEF j
    <3> DEFINE r == C[n][j]
    <3>4. EndsAtData(r, j)  BY <3>3, <1>4
    <3>5. /\ r \in 1..k /\ r # k /\ r \in DOMAIN entries
          /\ entries[r].linked = NoLink
          /\ SameRange(entries[r], entries[k])
      BY <3>1, <3>4, <2>1 DEF EndsAtData, SameRange
    <3>6. entries[r].sig \in Sig /\ entries[j].sig \in Sig /\ entries[k].sig \in Sig
      <4>1. entries[r] \in TagEntry /\ entries[j] \in TagEntry /\ entries[k] \in TagEntry
        BY <1>1, <2>1, <3>1, <3>5
      <4>  QED  BY <4>1 DEF TagEntry
    <3>7. CompatibleTypes(entries[r].sig, entries[k].sig)
      <4>1. CASE r = j  BY <4>1, <3>1
      <4>2. CASE r # j
        <5>1. CompatibleTypes(entries[r].sig, entries[j].sig)  BY <4>2, <3>4 DEF EndsAtData
        <5>  QED  BY <5>1, <3>1, <3>6, CompatibleTrans
      <4>  QED  BY <4>1, <4>2
    <3>  QED  BY <3>2, <3>5, <3>7 DEF EndsAtData
  <2>  QED  BY <2>2, <2>3
<1>5. 0..L \subseteq S
  <2>1. ASSUME NEW n \in 0..L, n # L /\ n \in S  PROVE n + 1 \in S
    <3>1. n + 1 \in 0..L  BY <2>1, <1>1a
    <3>  QED  BY <2>1, <3>1, <1>4
  <2>  HIDE DEF S, L
  <2>  QED  BY <1>1, <1>3, <2>1, IntervalInduction
<1>6. EndsAtData(C[L][i], i)
  <2>1. L \in S  BY <1>1, <1>5
  <2>2. i \in 1..L  BY <1>1
  <2>  QED  BY <2>1, <2>2
<1>7. TagEntryOf(entries, entries[i].sig) = i  BY <1>1, TagEntryOfUnique
<1>  QED  BY <1>6, <1>7 DEF SearchTag

(***************************************************************************)
(* For every directory that opens, of whatever length: the bounded search   *)
(* ends at an entry that holds data, over the bytes of the tag asked for.   *)
(***************************************************************************)
THEOREM SearchAlwaysReachesData == Spec => []SearchReachesData
<1>1. DirInv => SearchReachesData
  BY ChaseReachesData DEF SearchReachesData, EndsAtData
<1>  QED  BY <1>1, DirInvariant, PTL

\* Two entries with data over the same bytes and with the same row are one:
\* the loop would have linked the later to the earlier.
LEMMA DataEntriesApart ==
    ASSUME DirInv, NEW r \in DOMAIN entries, NEW s \in DOMAIN entries,
           entries[r].linked = NoLink, entries[s].linked = NoLink,
           SameRange(entries[r], entries[s]),
           CompatibleTypes(entries[r].sig, entries[s].sig)
    PROVE  r = s
<1> DEFINE Twin(a, b) ==
             /\ SameRange(entries[a], entries[b])
             /\ CompatibleTypes(entries[a].sig, entries[b].sig)
<1>1. entries \in Seq(TagEntry) /\ LinksPointBack  BY DEF DirInv, TypeOK
<1>2. /\ Len(entries) \in Nat /\ DOMAIN entries = 1..Len(entries)
      /\ entries[r].sig \in Sig /\ entries[s].sig \in Sig
  <2>1. entries[r] \in TagEntry /\ entries[s] \in TagEntry  BY <1>1
  <2>  QED  BY <1>1, <2>1 DEF TagEntry
<1>3. Twin(r, s) /\ Twin(s, r)
  BY <1>2, CompatibleSym DEF SameRange
<1>4. ASSUME NEW a \in DOMAIN entries, NEW b \in DOMAIN entries, Twin(a, b),
             entries[b].linked = NoLink
      PROVE  ~(a < b)
  <2> SUFFICES ASSUME a < b  PROVE FALSE  OBVIOUS
  <2>1. {j \in 1..(b - 1) : Twin(j, b)} = {}  BY <1>1, <1>4 DEF LinksPointBack
  <2>2. a \in 1..(b - 1)  BY <1>2
  <2>  QED  BY <2>1, <2>2, <1>4, Zenon
<1>5. ~(r < s) /\ ~(s < r)
  <2> HIDE DEF Twin
  <2>  QED  BY <1>3, <1>4
<1>  QED  BY <1>2, <1>5

LEMMA SlotsFollowBodies == ASSUME DirInv  PROVE OneSlotPerBody
<1> SUFFICES ASSUME phase = "open", NEW i \in DOMAIN entries, NEW j \in DOMAIN entries, i # j
             PROVE  (SearchTag(entries, entries[i].sig) = SearchTag(entries, entries[j].sig))
                    <=> (/\ SameRange(entries[i], entries[j])
                         /\ CompatibleTypes(entries[i].sig, entries[j].sig))
  BY DEF OneSlotPerBody
<1> DEFINE r == SearchTag(entries, entries[i].sig)
           s == SearchTag(entries, entries[j].sig)
<1>1. EndsAtData(r, i) /\ EndsAtData(s, j)  BY ChaseReachesData
<1>  HIDE DEF r, s
<1>2. \A k \in DOMAIN entries : entries[k].sig \in Sig
  <2>1. entries \in Seq(TagEntry)  BY DEF DirInv, TypeOK
  <2>2. \A k \in DOMAIN entries : entries[k] \in TagEntry  BY <2>1
  <2>  QED  BY <2>2 DEF TagEntry
<1>3. ASSUME r = s
      PROVE  SameRange(entries[i], entries[j]) /\ CompatibleTypes(entries[i].sig, entries[j].sig)
  <2>1. SameRange(entries[i], entries[j])  BY <1>1, <1>3 DEF EndsAtData, SameRange
  <2>2. /\ r # i => CompatibleTypes(entries[i].sig, entries[r].sig)
        /\ r # j => CompatibleTypes(entries[r].sig, entries[j].sig)
    BY <1>1, <1>2, <1>3, CompatibleSym DEF EndsAtData
  <2>3. r \in DOMAIN entries  BY <1>1 DEF EndsAtData
  <2>  QED  BY <1>2, <2>1, <2>2, <2>3, CompatibleTrans
<1>4. ASSUME SameRange(entries[i], entries[j]), CompatibleTypes(entries[i].sig, entries[j].sig)
      PROVE  r = s
  <2>1. /\ r \in DOMAIN entries /\ s \in DOMAIN entries
        /\ entries[r].linked = NoLink /\ entries[s].linked = NoLink
        /\ SameRange(entries[r], entries[s])
    BY <1>1, <1>4 DEF EndsAtData, SameRange
  <2>2. CompatibleTypes(entries[r].sig, entries[j].sig)
    <3>1. r # i => CompatibleTypes(entries[r].sig, entries[i].sig)  BY <1>1 DEF EndsAtData
    <3>  QED  BY <1>2, <1>4, <2>1, <3>1, CompatibleTrans
  <2>3. CompatibleTypes(entries[r].sig, entries[s].sig)
    <3>1. s # j => CompatibleTypes(entries[j].sig, entries[s].sig)
      BY <1>1, <1>2, <2>1, CompatibleSym DEF EndsAtData
    <3>  QED  BY <1>2, <2>1, <2>2, <3>1, CompatibleTrans
  <2>  QED  BY <2>1, <2>3, DataEntriesApart
<1>  QED  BY <1>3, <1>4 DEF r, s

(***************************************************************************)
(* For every directory that opens: two tags resolve to one entry, and share *)
(* one cached value, exactly when they may share their bytes.               *)
(***************************************************************************)
THEOREM OneSlotForEveryBody == Spec => []OneSlotPerBody
<1>1. DirInv => OneSlotPerBody  BY SlotsFollowBodies
<1>  QED  BY <1>1, DirInvariant, PTL

(***************************************************************************)
(* Reading tags from what it opened.                                        *)
(***************************************************************************)

-----------------------------------------------------------------------------
\* Rows that agree are one row.
LEMMA CompatibleRows ==
    ASSUME NEW a \in Sig, NEW b \in Sig, CompatibleTypes(a, b)
    PROVE  HasDescriptor(a) /\ HasDescriptor(b) /\ Descriptor[a] = Descriptor[b]
<1>1. Descriptor[a] \in DescriptorRow /\ Descriptor[b] \in DescriptorRow
  BY DescriptorAssumption DEF CompatibleTypes, HasDescriptor
<1>  QED  BY <1>1 DEF CompatibleTypes, HasDescriptor, DescriptorRow

\* a and b are one tag, or tags with the same builtin row.
Alike(a, b) == a = b \/ (HasDescriptor(a) /\ HasDescriptor(b) /\ Descriptor[a] = Descriptor[b])

LEMMA AlikeTrans ==
    ASSUME NEW a, NEW b, NEW c, Alike(a, b), Alike(b, c)
    PROVE  Alike(a, c) /\ Alike(b, a)
  BY DEF Alike

\* A read depends on the tag through its row only, and on the range's bytes.
LEMMA ReadAlike ==
    ASSUME NEW f, NEW r1, NEW r2, SameRange(r1, r2), NEW c, NEW a, NEW b, Alike(a, b)
    PROVE  ReadRange(f, r1, c, a) = ReadRange(f, r2, c, b)
<1>1. GoverningRow(c, a) = GoverningRow(c, b)  BY DEF GoverningRow, Alike
<1>2. r1.offset = r2.offset /\ r1.size = r2.size  BY DEF SameRange
<1> DEFINE Verdict(row, offset, size) ==
             LET block == f.blocks[offset]
                 decoded == Decode(c, block, size - 8)
             IN  IF row = NoDescriptor THEN Err("BadType")
                 ELSE IF size < 8 THEN Err("Corrupt")
                 ELSE IF \A i \in DOMAIN row.allowed_types : row.allowed_types[i] # block.type
                      THEN Err("BadType")
                 ELSE IF decoded.ok /\ ElemCount(decoded.value) < row.elem_count
                      THEN Err("Corrupt")
                 ELSE decoded
<1>3. /\ ReadRange(f, r1, c, a) = Verdict(GoverningRow(c, a), r1.offset, r1.size)
      /\ ReadRange(f, r2, c, b) = Verdict(GoverningRow(c, b), r2.offset, r2.size)
  BY Zenon DEF ReadRange
<1>  HIDE DEF Verdict
<1>  QED  BY <1>1, <1>2, <1>3, Zenon

\* Where plug-ins have no say, neither does the context.
LEMMA ReadBuiltin ==
    ASSUME NEW f, NEW r, NEW c, NEW d, NEW sig, PluginFree(f, r, sig)
    PROVE  ReadRange(f, r, c, sig) = ReadRange(f, r, d, sig)
<1> DEFINE block == f.blocks[r.offset]
<1>1. GoverningRow(c, sig) = Descriptor[sig] /\ GoverningRow(d, sig) = Descriptor[sig]
  BY DEF GoverningRow, PluginFree
<1>2. CASE \A i \in DOMAIN Descriptor[sig].allowed_types :
             Descriptor[sig].allowed_types[i] # block.type
  BY <1>1, <1>2 DEF ReadRange
<1>3. CASE \E i \in DOMAIN Descriptor[sig].allowed_types :
             Descriptor[sig].allowed_types[i] = block.type
  <2>1. block.type \in BuiltinTypes
    BY <1>3 DEF PluginFree, AllowedTypes
  <2>2. HandlerOf(c, block.type) = HandlerOf(d, block.type)
    BY <2>1 DEF HandlerOf
  <2>3. Decode(c, block, r.size - 8) = Decode(d, block, r.size - 8)
    BY <2>2 DEF Decode
  <2>  QED  BY <1>1, <2>3 DEF ReadRange
<1>  QED  BY <1>2, <1>3

\* A successful read is Ok of its value.
LEMMA ReadShape ==
    ASSUME NEW f, NEW r, NEW c, NEW sig, ReadRange(f, r, c, sig).ok
    PROVE  ReadRange(f, r, c, sig) = Ok(ReadRange(f, r, c, sig).value)
<1> DEFINE res == ReadRange(f, r, c, sig)
<1>1. \A e : Err(e).ok = FALSE  BY DEF Err
<1>2. (\E e : res = Err(e)) \/ res = Decode(c, f.blocks[r.offset], r.size - 8)
  BY DEF ReadRange
<1>3. (\E e : res = Err(e)) \/ (\E v : res = Ok(v))
  <2>1. ASSUME NEW b, NEW n
        PROVE  (\E e : Decode(c, b, n) = Err(e)) \/ (\E v : Decode(c, b, n) = Ok(v))
    BY DEF Decode
  <2>  QED  BY <1>2, <2>1, Zenon
<1>4. PICK v : res = Ok(v)  BY <1>1, <1>3, Zenon
<1>5. Ok(v).value = v  BY DEF Ok
<1>  QED  BY <1>4, <1>5, Zenon

-----------------------------------------------------------------------------
\* What a search in progress maintains (SearchSound, and that it finds
\* something exactly when the tag is there).
SearchInv ==
    request # NoRequest =>
        LET start == TagEntryOf(entries, request.sig)
        IN  /\ phase = "open"
            /\ request \in Request
            /\ request.at = 0 <=> start = 0
            /\ request.at # 0 =>
                 /\ request.at \in DOMAIN entries
                 /\ request.at + request.hops <= start
                 /\ SameRange(entries[request.at], entries[start])
                 /\ Alike(entries[request.at].sig, request.sig)
                 /\ request.at # start =>
                      CompatibleTypes(entries[request.at].sig, request.sig)

\* What a cached value is: the answer some context got for a tag like it.
CachedFor(s, c, t) ==
    LET i == TagEntryOf(entries, s)
    IN  /\ i # 0
        /\ entries[i].linked = NoLink
        /\ Alike(s, t)
        /\ ReadRange(file, entries[i], c, t) = Ok(cache[s])

CacheInv ==
    /\ DOMAIN cache # {} => phase = "open"
    /\ \A s \in DOMAIN cache :
         s \in Sig /\ \E c \in Context, t \in Sig : CachedFor(s, c, t)

(***************************************************************************)
(* What a call may be answered: from the tag's own entry, by the caller's   *)
(* context, or, where a plug-in has a say, successfully by some context.    *)
(***************************************************************************)
Answers(op, ctx, sig, result) ==
    LET own == TagEntryOf(entries, sig)
    IN  IF own = 0 THEN result = Err(IF op = "tag_true_type" THEN "None" ELSE "Range")
        ELSE /\ op = "read_tag_in" =>
                  \E c \in IF PluginFree(file, entries[own], sig) THEN {ctx} ELSE Context :
                     /\ result = ReadRange(file, entries[own], c, sig)
                     /\ c = ctx \/ result.ok
             /\ op = "read_tag_raw" => result = RawAt(file, entries[own])
             /\ op = "tag_true_type" => result = TrueTypeAt(file, entries[own])

ReplyInv ==
    reply # NoRequest =>
        /\ phase = "open"
        /\ reply.ctx \in Context
        /\ reply.sig \in Sig
        /\ Answers(reply.op, reply.ctx, reply.sig, reply.result)

ProfInv ==
    /\ DirInv
    /\ SearchInv
    /\ CacheInv
    /\ ReplyInv

\* The bound of the chase is never what ends it.
LEMMA ChaseEndsAtData ==
    ASSUME ProfInv, request # NoRequest, request.at # 0, Searched
    PROVE  Resolved.linked = NoLink
<1> SUFFICES ASSUME request.hops = Len(entries)  PROVE FALSE
  BY DEF Searched, Resolved
<1>1. entries \in Seq(TagEntry)  BY DEF ProfInv, DirInv, TypeOK
<1>2. TagEntryOf(entries, request.sig) \in 0..Len(entries)  BY <1>1, TagEntryOfFirst
<1>3. request.at + request.hops <= TagEntryOf(entries, request.sig) /\ request.at \in Nat
  BY DEF ProfInv, SearchInv, Request
<1>4. Len(entries) \in Nat  BY <1>1
<1>  QED  BY <1>2, <1>3, <1>4

\* Nothing but the search moves: the rest of the invariant carries over.
LEMMA Frame ==
    ASSUME ProfInv, UNCHANGED dirVars, UNCHANGED cache
    PROVE  DirInv' /\ CacheInv'
<1>1. DirInv'  BY DirStutter DEF ProfInv, dirVars
<1>2. CacheInv'  BY DEF ProfInv, CacheInv, CachedFor, dirVars
<1>  QED  BY <1>1, <1>2

LEMMA CallInv ==
    ASSUME ProfInv, NEW op \in Ops, NEW ctx \in Context, NEW sig \in Sig, Call(op, ctx, sig)
    PROVE  ProfInv'
<1>1. UNCHANGED dirVars /\ UNCHANGED cache  BY DEF Call
<1>2. DirInv' /\ CacheInv'  BY <1>1, Frame
<1>3. SearchInv'
  <2> DEFINE start == TagEntryOf(entries, sig)
  <2>1. entries \in Seq(TagEntry)  BY DEF ProfInv, DirInv, TypeOK
  <2>2. /\ start \in Nat
        /\ start # 0 => start \in DOMAIN entries /\ entries[start].sig = sig
    BY <2>1, TagEntryOfFirst
  <2>3. /\ request' = [op |-> op, ctx |-> ctx, sig |-> sig, at |-> start, hops |-> 0]
        /\ phase' = "open" /\ entries' = entries
    BY DEF Call, dirVars
  <2>4. request' \in Request  BY <2>2, <2>3 DEF Request
  <2>  QED  BY <2>2, <2>3, <2>4 DEF SearchInv, SameRange, Alike
<1>4. ReplyInv'  BY DEF Call, ReplyInv
<1>  QED  BY <1>2, <1>3, <1>4 DEF ProfInv

LEMMA FollowLinkInv ==
    ASSUME ProfInv, FollowLink
    PROVE  ProfInv'
<1>1. UNCHANGED dirVars /\ UNCHANGED cache /\ UNCHANGED reply  BY DEF FollowLink
<1>2. DirInv' /\ CacheInv'  BY <1>1, Frame
<1>3. SearchInv'
  <2> DEFINE a == request.at
             b == TagEntryOf(entries, entries[a].linked)
             start == TagEntryOf(entries, request.sig)
  <2>1. /\ request # NoRequest /\ a # 0 /\ entries[a].linked # NoLink
        /\ request' = [request EXCEPT !.at = b, !.hops = @ + 1]
        /\ entries' = entries /\ phase' = phase
    BY DEF FollowLink, Searched, dirVars
  <2>2. /\ phase = "open" /\ a \in DOMAIN entries
        /\ request \in Request /\ a \in Nat /\ request.hops \in Nat /\ request.sig \in Sig
        /\ a + request.hops <= start /\ start # 0
        /\ SameRange(entries[a], entries[start])
        /\ Alike(entries[a].sig, request.sig)
        /\ a # start => CompatibleTypes(entries[a].sig, request.sig)
    BY <2>1 DEF ProfInv, SearchInv, Request
  <2>3. entries \in Seq(TagEntry)  BY DEF ProfInv, DirInv, TypeOK
  <2>4. /\ b \in 1..(a - 1) /\ b \in DOMAIN entries
        /\ SameRange(entries[b], entries[a])
        /\ CompatibleTypes(entries[b].sig, entries[a].sig)
    BY <2>1, <2>2, LinkTarget DEF ProfInv
  <2>5. start \in Nat /\ start \in DOMAIN entries /\ entries[start].sig = request.sig
    BY <2>2, <2>3, TagEntryOfFirst
  <2>6. entries[a].sig \in Sig /\ entries[b].sig \in Sig
    <3>1. entries[a] \in TagEntry /\ entries[b] \in TagEntry  BY <2>2, <2>3, <2>4
    <3>  QED  BY <3>1 DEF TagEntry
  <2>7. CompatibleTypes(entries[b].sig, request.sig)
    <3>1. CASE a = start  BY <3>1, <2>4, <2>5
    <3>2. CASE a # start  BY <3>2, <2>2, <2>4, <2>6, CompatibleTrans
    <3>  QED  BY <3>1, <3>2
  <2>8. Alike(entries[b].sig, request.sig)
    BY <2>2, <2>6, <2>7, CompatibleRows DEF Alike
  <2>9. SameRange(entries[b], entries[start])  BY <2>2, <2>4 DEF SameRange
  <2>10. /\ request'.at = b /\ request'.hops = request.hops + 1
         /\ request'.sig = request.sig
         /\ request' \in Request
    <3>1. b \in Nat  BY <2>4, <2>2
    <3>2. request' = [op |-> request.op, ctx |-> request.ctx, sig |-> request.sig,
                      at |-> b, hops |-> request.hops + 1]
      <4>  HIDE DEF b
      <4>  QED  BY <2>1, <2>2 DEF Request
    <3>3. request.op \in Ops /\ request.ctx \in Context /\ request.hops + 1 \in Nat
      BY <2>2 DEF Request
    <3>  HIDE DEF b
    <3>  QED  BY <2>2, <3>1, <3>2, <3>3 DEF Request
  <2>11. b \in Nat /\ b # 0 /\ b # start /\ b + (request.hops + 1) <= start
    BY <2>2, <2>4, <2>5
  <2>  QED
    BY <2>1, <2>2, <2>4, <2>7, <2>8, <2>9, <2>10, <2>11 DEF SearchInv
<1>4. ReplyInv'  BY <1>1 DEF ProfInv, ReplyInv, Answers, dirVars
<1>  QED  BY <1>2, <1>3, <1>4 DEF ProfInv

\* What the end of a successful search knows.
LEMMA FoundEntry ==
    ASSUME ProfInv, request # NoRequest, request.at # 0, Searched
    PROVE  LET i == request.at
               own == TagEntryOf(entries, request.sig)
           IN  /\ phase = "open"
               /\ request \in Request
               /\ i \in DOMAIN entries /\ own \in DOMAIN entries
               /\ entries[i].sig \in Sig
               /\ entries[own].sig = request.sig
               /\ TagEntryOf(entries, entries[i].sig) = i
               /\ entries[i].linked = NoLink
               /\ SameRange(entries[i], entries[own])
               /\ Alike(entries[i].sig, request.sig)
<1>1. entries \in Seq(TagEntry) /\ (phase = "open" => ~HasDuplicate(entries))
  BY DEF ProfInv, DirInv, TypeOK, NoTwins
<1>2. /\ phase = "open" /\ request \in Request
      /\ TagEntryOf(entries, request.sig) # 0
      /\ request.at \in DOMAIN entries
      /\ SameRange(entries[request.at], entries[TagEntryOf(entries, request.sig)])
      /\ Alike(entries[request.at].sig, request.sig)
  BY DEF ProfInv, SearchInv
<1>3. entries[request.at].linked = NoLink  BY ChaseEndsAtData DEF Resolved
<1>4. TagEntryOf(entries, entries[request.at].sig) = request.at
  BY <1>1, <1>2, TagEntryOfUnique
<1>5. /\ TagEntryOf(entries, request.sig) \in DOMAIN entries
      /\ entries[TagEntryOf(entries, request.sig)].sig = request.sig
  BY <1>1, <1>2, TagEntryOfFirst
<1>6. entries[request.at].sig \in Sig
  <2>1. entries[request.at] \in TagEntry  BY <1>1, <1>2
  <2>  QED  BY <2>1 DEF TagEntry
<1>  QED  BY <1>2, <1>3, <1>4, <1>5, <1>6

\* The answer's four forms, one lemma each.
LEMMA AbsentAnswers ==
    ASSUME ProfInv, ReturnAbsent
    PROVE  \E result : Return(result) /\ Answers(request.op, request.ctx, request.sig, result)
<1>1. request # NoRequest /\ request.at = 0  BY DEF ReturnAbsent
<1>2. TagEntryOf(entries, request.sig) = 0  BY <1>1 DEF ProfInv, SearchInv
<1>  QED  BY <1>2 DEF ReturnAbsent, Answers

LEMMA QueryAnswers ==
    ASSUME ProfInv, ReturnTrueType \/ ReturnRaw
    PROVE  \E result : Return(result) /\ Answers(request.op, request.ctx, request.sig, result)
<1> DEFINE own == TagEntryOf(entries, request.sig)
<1>1. request # NoRequest /\ request.at # 0 /\ Searched
  BY DEF ReturnTrueType, ReturnRaw, Found
<1>2. own \in DOMAIN entries /\ SameRange(Resolved, entries[own])
  BY <1>1, FoundEntry DEF Resolved
<1>3. own # 0
  <2>1. entries \in Seq(TagEntry)  BY DEF ProfInv, DirInv, TypeOK
  <2>2. 0 \notin DOMAIN entries  BY <2>1
  <2>  QED  BY <1>2, <2>2
<1>4. /\ TrueTypeAt(file, Resolved) = TrueTypeAt(file, entries[own])
      /\ RawAt(file, Resolved) = RawAt(file, entries[own])
  BY <1>2 DEF SameRange, TrueTypeAt, RawAt
<1>5. CASE ReturnTrueType
  <2>1. request.op = "tag_true_type" /\ Return(TrueTypeAt(file, Resolved))
    BY <1>5 DEF ReturnTrueType, Found
  <2>2. Answers(request.op, request.ctx, request.sig, TrueTypeAt(file, Resolved))
    BY <1>3, <1>4, <2>1 DEF Answers
  <2>  QED  BY <2>1, <2>2
<1>6. CASE ReturnRaw
  <2>1. request.op = "read_tag_raw" /\ Return(RawAt(file, Resolved))
    BY <1>6 DEF ReturnRaw, Found
  <2>2. Answers(request.op, request.ctx, request.sig, RawAt(file, Resolved))
    BY <1>3, <1>4, <2>1 DEF Answers
  <2>  QED  BY <2>1, <2>2
<1>  QED  BY <1>5, <1>6

LEMMA CachedAnswers ==
    ASSUME ProfInv, ReturnCached
    PROVE  \E result : Return(result) /\ Answers(request.op, request.ctx, request.sig, result)
<1> DEFINE s == Resolved.sig
           own == TagEntryOf(entries, request.sig)
<1>1. /\ request # NoRequest /\ request.at # 0 /\ Searched /\ s \in DOMAIN cache
      /\ request.op = "read_tag_in"
      /\ Return(Ok(cache[s]))
  BY DEF ReturnCached, Found
<1>2. /\ own \in DOMAIN entries /\ own # 0
      /\ request.ctx \in Context
      /\ TagEntryOf(entries, s) = request.at
      /\ SameRange(entries[request.at], entries[own])
      /\ Alike(s, request.sig)
  <2>1. entries \in Seq(TagEntry)  BY DEF ProfInv, DirInv, TypeOK
  <2>2. 0 \notin DOMAIN entries  BY <2>1
  <2>  QED  BY <1>1, <2>2, FoundEntry DEF Resolved, Request
<1>3. PICK c \in Context, t \in Sig : CachedFor(s, c, t)
  BY <1>1 DEF ProfInv, CacheInv
<1>4. Alike(t, request.sig)
  <2>1. Alike(s, t)  BY <1>3 DEF CachedFor
  <2>2. Alike(t, s)  BY <2>1 DEF Alike
  <2>  HIDE DEF s
  <2>  QED  BY <1>2, <2>2, AlikeTrans
<1>5. ReadRange(file, entries[request.at], c, t) = Ok(cache[s])
  BY <1>2, <1>3 DEF CachedFor
<1>6. Ok(cache[s]) = ReadRange(file, entries[own], c, request.sig)
  BY <1>2, <1>4, <1>5, ReadAlike
<1>7. Ok(cache[s]).ok  BY DEF Ok
<1>8. CASE PluginFree(file, entries[own], request.sig)
  <2>1. Ok(cache[s]) = ReadRange(file, entries[own], request.ctx, request.sig)
    BY <1>6, <1>8, ReadBuiltin
  <2>2. Answers(request.op, request.ctx, request.sig, Ok(cache[s]))
    BY <1>1, <1>2, <1>7, <1>8, <2>1, Zenon DEF Answers
  <2>  QED  BY <1>1, <2>2
<1>9. CASE ~PluginFree(file, entries[own], request.sig)
  <2>1. Answers(request.op, request.ctx, request.sig, Ok(cache[s]))
    BY <1>1, <1>2, <1>6, <1>7, <1>9, Zenon DEF Answers
  <2>  QED  BY <1>1, <2>1
<1>  QED  BY <1>8, <1>9

LEMMA DecodedAnswers ==
    ASSUME ProfInv, ReturnDecoded
    PROVE  \E result : Return(result) /\ Answers(request.op, request.ctx, request.sig, result)
<1> DEFINE own == TagEntryOf(entries, request.sig)
           result == ReadRange(file, Resolved, request.ctx, request.sig)
<1>1. /\ request # NoRequest /\ request.at # 0 /\ Searched
      /\ request.op = "read_tag_in"
      /\ Return(result)
  BY DEF ReturnDecoded, Found
<1>2. /\ own # 0 /\ request.ctx \in Context
      /\ SameRange(Resolved, entries[own])
  <2>1. entries \in Seq(TagEntry)  BY DEF ProfInv, DirInv, TypeOK
  <2>2. 0 \notin DOMAIN entries  BY <2>1
  <2>  QED  BY <1>1, <2>2, FoundEntry DEF Resolved, Request
<1>3. result = ReadRange(file, entries[own], request.ctx, request.sig)
  <2>1. Alike(request.sig, request.sig)  BY DEF Alike
  <2>  QED  BY <1>2, <2>1, ReadAlike
<1>4. Answers(request.op, request.ctx, request.sig, result)
  <2> HIDE DEF result
  <2>  QED  BY <1>1, <1>2, <1>3, Zenon DEF Answers
<1>  QED  BY <1>1, <1>4

Returning == ReturnAbsent \/ ReturnCached \/ ReturnDecoded \/ ReturnTrueType \/ ReturnRaw

LEMMA ReturnAnswers ==
    ASSUME ProfInv, Returning
    PROVE  \E result : Return(result) /\ Answers(request.op, request.ctx, request.sig, result)
  BY AbsentAnswers, CachedAnswers, DecodedAnswers, QueryAnswers DEF Returning

\* Any return ends the search and leaves a sound reply.
LEMMA ReplyKept ==
    ASSUME ProfInv, Returning
    PROVE  SearchInv' /\ ReplyInv'
<1>1. PICK result : Return(result) /\ Answers(request.op, request.ctx, request.sig, result)
  BY ReturnAnswers
<1>2. request # NoRequest /\ UNCHANGED dirVars
  BY DEF Returning, ReturnAbsent, ReturnCached, ReturnDecoded, ReturnTrueType, ReturnRaw, Found
<1>3. phase = "open" /\ request.ctx \in Context /\ request.sig \in Sig
  BY <1>2 DEF ProfInv, SearchInv, Request
<1>4. /\ request' = NoRequest
      /\ reply' = [op |-> request.op, ctx |-> request.ctx, sig |-> request.sig,
                   result |-> result]
  BY <1>1 DEF Return
<1>5. entries' = entries /\ file' = file /\ phase' = phase  BY <1>2 DEF dirVars
<1>6. SearchInv'  BY <1>4 DEF SearchInv
<1>  QED  BY <1>1, <1>3, <1>4, <1>5, <1>6 DEF ReplyInv, Answers

LEMMA DecodedCache ==
    ASSUME ProfInv, ReturnDecoded
    PROVE  CacheInv'
<1> DEFINE result == ReadRange(file, Resolved, request.ctx, request.sig)
<1>1. /\ UNCHANGED dirVars
      /\ request # NoRequest /\ request.at # 0 /\ Searched
      /\ cache' = IF result.ok
                  THEN [x \in DOMAIN cache \cup {Resolved.sig} |->
                          IF x = Resolved.sig THEN result.value ELSE cache[x]]
                  ELSE cache
  BY DEF ReturnDecoded, Found
<1>2. PICK key, c0, t0 : key = Resolved.sig /\ c0 = request.ctx /\ t0 = request.sig
  OBVIOUS
<1>3. /\ phase = "open" /\ t0 \in Sig /\ c0 \in Context /\ key \in Sig
      /\ TagEntryOf(entries, key) = request.at
      /\ entries[request.at].linked = NoLink
      /\ Alike(key, t0)
  BY <1>1, <1>2, FoundEntry DEF Resolved, Request
<1>4. entries' = entries /\ phase' = phase /\ file' = file  BY <1>1 DEF dirVars
<1>5. CASE ~result.ok
  <2>1. cache' = cache  BY <1>1, <1>5
  <2>  QED  BY <2>1, <1>4 DEF ProfInv, CacheInv, CachedFor
<1>6. CASE result.ok
  <2>1. /\ DOMAIN cache' = DOMAIN cache \cup {key}
        /\ cache'[key] = result.value
        /\ \A x \in DOMAIN cache : x # key => cache'[x] = cache[x]
    <3> HIDE DEF result
    <3>  QED  BY <1>1, <1>2, <1>6
  <2>2. result = Ok(result.value)  BY <1>6, ReadShape
  <2>3. CachedFor(key, c0, t0)'
    <3>1. request.at # 0 /\ entries'[request.at].linked = NoLink  BY <1>1, <1>3, <1>4
    <3>2. ReadRange(file', entries'[request.at], c0, t0) = Ok(cache'[key])
      BY <1>4, <1>2, <2>1, <2>2 DEF Resolved
    <3>3. TagEntryOf(entries', key) = request.at /\ Alike(key, t0)  BY <1>3, <1>4
    <3>  QED  BY <3>1, <3>2, <3>3, Zenon DEF CachedFor
  <2>4. ASSUME NEW x \in DOMAIN cache, x # key
        PROVE  x \in Sig /\ \E c \in Context, t \in Sig : CachedFor(x, c, t)'
    <3>1. PICK c \in Context, t \in Sig : CachedFor(x, c, t)
      BY DEF ProfInv, CacheInv
    <3>2. CachedFor(x, c, t)'
      <4>1. cache'[x] = cache[x]  BY <2>1, <2>4
      <4>  QED  BY <3>1, <4>1, <1>4, Zenon DEF CachedFor
    <3>3. x \in Sig  BY DEF ProfInv, CacheInv
    <3>  QED  BY <3>2, <3>3
  <2>  QED  BY <1>3, <1>4, <2>1, <2>3, <2>4 DEF CacheInv
<1>  QED  BY <1>5, <1>6

LEMMA ReturningInv == ASSUME ProfInv, Returning  PROVE ProfInv'
<1>1. SearchInv' /\ ReplyInv'  BY ReplyKept
<1>2. CASE ReturnDecoded
  <2>1. UNCHANGED dirVars  BY <1>2 DEF ReturnDecoded
  <2>2. DirInv'  BY <2>1, DirStutter DEF ProfInv
  <2>  QED  BY <1>1, <1>2, <2>2, DecodedCache DEF ProfInv
<1>3. CASE ~ReturnDecoded
  <2>1. UNCHANGED dirVars /\ UNCHANGED cache
    BY <1>3 DEF Returning, ReturnAbsent, ReturnCached, ReturnTrueType, ReturnRaw
  <2>  QED  BY <1>1, <2>1, Frame DEF ProfInv
<1>  QED  BY <1>2, <1>3

LEMMA ReadStepInv == ASSUME ProfInv, ReadStep  PROVE ProfInv'
  BY FollowLinkInv, ReturningInv DEF ReadStep, Returning

\* Opening and parsing: no call is in progress and nothing is cached yet.
LEMMA OpeningInv ==
    ASSUME ProfInv, DirInv', phase # "open", UNCHANGED <<cache, request, reply>>
    PROVE  ProfInv'
<1>1. request = NoRequest /\ reply = NoRequest /\ DOMAIN cache = {}
  BY DEF ProfInv, SearchInv, ReplyInv, CacheInv
<1>2. SearchInv' /\ CacheInv' /\ ReplyInv'
  BY <1>1 DEF SearchInv, CacheInv, ReplyInv
<1>  QED  BY <1>2 DEF ProfInv

LEMMA OpenFileInv ==
    ASSUME ProfInv, NEW f, IsFile(f), Open(f), UNCHANGED <<cache, request, reply>>
    PROVE  ProfInv'
<1>1. DirInv' /\ phase # "open"  BY DirOpen DEF ProfInv, Open
<1>  QED  BY <1>1, OpeningInv

LEMMA ParseFileInv ==
    ASSUME ProfInv, ParseStep, UNCHANGED <<cache, request, reply>>
    PROVE  ProfInv'
<1>1. DirInv' /\ phase # "open"
  BY DirParseStep DEF ProfInv, ParseStep, ParseEntry, Truncated, FinishDirectory
<1>  QED  BY <1>1, OpeningInv

LEMMA ProfStutter == ASSUME ProfInv, UNCHANGED vars  PROVE ProfInv'
<1>1. DirInv' /\ CacheInv'  BY Frame DEF vars
<1>2. SearchInv' /\ ReplyInv'
  BY DEF ProfInv, SearchInv, ReplyInv, Answers, vars, dirVars
<1>  QED  BY <1>1, <1>2 DEF ProfInv

LEMMA ProfNextInv == ASSUME ProfInv, [ProfileNext]_vars  PROVE ProfInv'
<1>1. ASSUME NEW f \in Files, Open(f), UNCHANGED <<cache, request, reply>>
      PROVE  ProfInv'
  BY <1>1, OpenFileInv, FileAssumption
<1>2. CASE ParseStep /\ UNCHANGED <<cache, request, reply>>
  BY <1>2, ParseFileInv
<1>3. ASSUME NEW op \in Ops, NEW ctx \in Context, NEW sig \in Sig, Call(op, ctx, sig)
      PROVE  ProfInv'
  BY <1>3, CallInv
<1>4. CASE ReadStep  BY <1>4, ReadStepInv
<1>5. CASE UNCHANGED vars  BY <1>5, ProfStutter
<1>  QED
  BY <1>1, <1>2, <1>3, <1>4, <1>5 DEF ProfileNext, OpenStep

LEMMA ProfInitInv == ProfileInit => ProfInv
<1> SUFFICES ASSUME ProfileInit  PROVE ProfInv  OBVIOUS
<1>1. DirInv  BY DirInit DEF ProfileInit
<1>2. DOMAIN cache = {}  BY DEF ProfileInit
<1>3. SearchInv /\ CacheInv /\ ReplyInv
  BY <1>2 DEF ProfileInit, SearchInv, CacheInv, ReplyInv
<1>  QED  BY <1>1, <1>3 DEF ProfInv

THEOREM ProfileInvariant == ProfileSpec => []ProfInv
<1>1. ProfInv /\ [ProfileNext]_vars => ProfInv'  BY ProfNextInv
<1>  QED  BY <1>1, ProfInitInv, PTL DEF ProfileSpec

-----------------------------------------------------------------------------
LEMMA RepliesStateless == ASSUME ProfInv  PROVE BuiltinReadsAreStateless
<1> SUFFICES ASSUME reply # NoRequest, reply.op = "read_tag_in",
                    TagEntryOf(entries, reply.sig) # 0,
                    PluginFree(file, OwnEntry(reply.sig), reply.sig)
             PROVE  reply.result
                      = ReadRange(file, OwnEntry(reply.sig), EmptyContext, reply.sig)
  BY DEF BuiltinReadsAreStateless
<1>1. reply.result = ReadRange(file, OwnEntry(reply.sig), reply.ctx, reply.sig)
  BY DEF ProfInv, ReplyInv, Answers, OwnEntry
<1>  QED  BY <1>1, ReadBuiltin

(***************************************************************************)
(* For every descriptor table, file and set of contexts: reading a tag of a *)
(* builtin type gives the answer of its own bytes, whatever was read before *)
(* and by whom.                                                             *)
(***************************************************************************)
THEOREM BuiltinReadsStateless == ProfileSpec => []BuiltinReadsAreStateless
<1>1. ProfInv => BuiltinReadsAreStateless  BY RepliesStateless
<1>  QED  BY <1>1, ProfileInvariant, PTL

(***************************************************************************)
(* For every directory: the link chase stays on the tag's bytes, and it is  *)
(* never its iteration bound that ends it.                                  *)
(***************************************************************************)
THEOREM SearchIsSound == ProfileSpec => []SearchSound
<1>1. ProfInv => SearchSound
  BY ChaseEndsAtData DEF ProfInv, SearchInv, SearchSound
<1>  QED  BY <1>1, ProfileInvariant, PTL

\* What a successful read says about the bytes it decoded.
LEMMA DecodedFrom ==
    ASSUME NEW f, NEW r, NEW c, NEW sig, NEW v, ReadRange(f, r, c, sig) = Ok(v)
    PROVE  LET block == f.blocks[r.offset]
           IN  /\ ~(r.size < 8)
               /\ v = [by |-> HandlerOf(c, block.type), type |-> block.type,
                       data |-> block.data, payload |-> r.size - 8]
<1> DEFINE block == f.blocks[r.offset]
           res == ReadRange(f, r, c, sig)
<1>1. \A e, w : Err(e) # Ok(w)
  <2>1. \A e, w : Err(e).ok # Ok(w).ok  BY DEF Err, Ok
  <2>  QED  BY <2>1
<1>2. ~(r.size < 8) /\ res = Decode(c, block, r.size - 8)
  BY <1>1 DEF ReadRange
<1>3. Ok(v) = Ok([by |-> HandlerOf(c, block.type), type |-> block.type,
                  data |-> block.data, payload |-> r.size - 8])
  BY <1>1, <1>2 DEF Decode
<1>4. \A w : Ok(w).value = w  BY DEF Ok
<1>  QED  BY <1>2, <1>3, <1>4, Zenon

LEMMA CacheTypes == ASSUME ProfInv  PROVE CachedTypeIsTrueType
<1> SUFFICES ASSUME NEW s \in DOMAIN cache
             PROVE  LET i == TagEntryOf(entries, s)
                    IN  /\ i # 0
                        /\ entries[i].linked = NoLink
                        /\ TrueTypeAt(file, entries[i]) = Ok(cache[s].type)
  BY DEF CachedTypeIsTrueType
<1> DEFINE i == TagEntryOf(entries, s)
<1>1. PICK c \in Context, t \in Sig : CachedFor(s, c, t)
  BY DEF ProfInv, CacheInv
<1>2. i # 0 /\ entries[i].linked = NoLink
      /\ ReadRange(file, entries[i], c, t) = Ok(cache[s])
  BY <1>1 DEF CachedFor
<1>3. ~(entries[i].size < 8) /\ cache[s].type = file.blocks[entries[i].offset].type
  BY <1>2, DecodedFrom
<1>4. i \in DOMAIN entries /\ entries \in Seq(TagEntry) /\ phase = "open"
  BY <1>2, TagEntryOfFirst DEF ProfInv, DirInv, TypeOK, CacheInv
<1>5. entries[i].offset + 8 <= file.len
  <2>1. entries[i].offset + entries[i].size <= file.len
    BY <1>4 DEF ProfInv, DirInv, EntriesInBounds
  <2>2. entries[i].offset \in Nat /\ entries[i].size \in Nat /\ file.len \in Nat
    <3>1. entries[i] \in TagEntry /\ IsFile(file)
      BY <1>4 DEF ProfInv, DirInv, TypeOK
    <3>  QED  BY <3>1, FileAssumption DEF TagEntry, IsFile, U32Max
  <2>  QED  BY <1>3, <2>1, <2>2
<1>  QED  BY <1>2, <1>3, <1>5 DEF TrueTypeAt

(***************************************************************************)
(* For every file, table and set of contexts: the cache is keyed by entries *)
(* with data, and its values have the type base those entries' bytes have.  *)
(***************************************************************************)
THEOREM CacheHoldsTrueTypes == ProfileSpec => []CachedTypeIsTrueType
<1>1. ProfInv => CachedTypeIsTrueType  BY CacheTypes
<1>  QED  BY <1>1, ProfileInvariant, PTL

-----------------------------------------------------------------------------
(***************************************************************************)
(* The abstract reader's own copies of the decoding operators are these.    *)
(***************************************************************************)
LEMMA SameResults ==
    /\ \A v : Reader!Ok(v) = Ok(v)
    /\ \A e : Reader!Err(e) = Err(e)
  BY DEF Reader!Ok, Ok, Reader!Err, Err

LEMMA SameHandlers ==
    ASSUME NEW c, NEW type
    PROVE  Reader!HandlerOf(c, type) = HandlerOf(c, type)
  BY DEF Reader!HandlerOf, HandlerOf, Reader!FirstMatch, FirstMatch

LEMMA SameRows ==
    ASSUME NEW c, NEW sig
    PROVE  Reader!GoverningRow(c, sig) = GoverningRow(c, sig)
<1>1. Reader!CustomRow(c, sig) = CustomRow(c, sig)
  BY DEF Reader!CustomRow, CustomRow, Reader!FirstMatch, FirstMatch
<1>  QED
  BY <1>1 DEF Reader!GoverningRow, GoverningRow, Reader!HasDescriptor, HasDescriptor

LEMMA SameDecodes ==
    ASSUME NEW c, NEW block, NEW n
    PROVE  Reader!Decode(c, block, n) = Decode(c, block, n)
  BY SameHandlers, SameResults DEF Reader!Decode, Decode

LEMMA SameReads ==
    ASSUME NEW f, NEW r, NEW c, NEW sig
    PROVE  Reader!ReadRange(f, r, c, sig) = ReadRange(f, r, c, sig)
<1>1. \A v : Reader!ElemCount(v) = ElemCount(v)  BY DEF Reader!ElemCount, ElemCount
<1>  QED
  BY <1>1, SameRows, SameDecodes, SameResults DEF Reader!ReadRange, ReadRange

LEMMA SameQueries ==
    ASSUME NEW f, NEW r, NEW sig
    PROVE  /\ Reader!RawAt(f, r) = RawAt(f, r)
           /\ Reader!TrueTypeAt(f, r) = TrueTypeAt(f, r)
           /\ Reader!PluginFree(f, r, sig) <=> PluginFree(f, r, sig)
           /\ Reader!HoldsTag(f, sig, r) <=> HoldsTag(f, sig, r)
<1>1. Reader!RawAt(f, r) = RawAt(f, r) /\ Reader!TrueTypeAt(f, r) = TrueTypeAt(f, r)
  BY SameResults DEF Reader!RawAt, RawAt, Reader!TrueTypeAt, TrueTypeAt
<1>2. Reader!PluginFree(f, r, sig) <=> PluginFree(f, r, sig)
  BY DEF Reader!PluginFree, PluginFree, Reader!HasDescriptor, HasDescriptor,
         Reader!AllowedTypes, AllowedTypes
<1>3. Reader!HoldsTag(f, sig, r) <=> HoldsTag(f, sig, r)
  BY DEF Reader!HoldsTag, HoldsTag, Reader!SameRange, SameRange
<1>  QED  BY <1>1, <1>2, <1>3

-----------------------------------------------------------------------------
(***************************************************************************)
(* The refinement: the file is one a caller may open, and every entry comes *)
(* from its directory.                                                      *)
(***************************************************************************)
Listed(e) == \E k \in 1..file.count : file.table[k].sig = e.sig /\ SameRange(file.table[k], e)

FileInv ==
    /\ phase # "closed" => file \in Files
    /\ phase = "closed" => entries = <<>> /\ reply = NoRequest
    /\ \A i \in DOMAIN entries : Listed(entries[i])

LEMMA FileParseEntry == ASSUME DirInv, FileInv, ParseEntry, UNCHANGED reply  PROVE FileInv'
<1> DEFINE e == file.table[seen + 1]
<1>1. /\ file' = file /\ phase' = phase /\ phase = "parsing" /\ file \in Files
      /\ entries' = IF Dropped(file, e) THEN entries ELSE Append(entries, Accepted(entries, e))
  BY DEF ParseEntry, FileInv
<1>2. entries \in Seq(TagEntry) /\ seen + 1 \in 1..file.count
  <2>1. IsFile(file) /\ seen \in Nat  BY <1>1 DEF DirInv, TypeOK
  <2>2. file.count \in Nat  BY <2>1, FileAssumption DEF IsFile, U32Max
  <2>  QED  BY <2>1, <2>2 DEF DirInv, TypeOK, ParseEntry
<1>3. CASE Dropped(file, e)  BY <1>1, <1>3 DEF FileInv, Listed
<1>4. CASE ~Dropped(file, e)
  <2> DEFINE new == Accepted(entries, e)
  <2>1. new.sig = e.sig /\ SameRange(e, new)  BY DEF Accepted, SameRange
  <2>2. Listed(new)  BY <1>2, <2>1 DEF Listed
  <2>  HIDE DEF new
  <2>3. /\ DOMAIN entries' = 1..(Len(entries) + 1)
        /\ \A i \in 1..Len(entries) : entries'[i] = entries[i]
        /\ entries'[Len(entries) + 1] = new
        /\ DOMAIN entries = 1..Len(entries) /\ Len(entries) \in Nat
    BY <1>1, <1>2, <1>4 DEF new
  <2>4. ASSUME NEW i \in DOMAIN entries'  PROVE Listed(entries'[i])
    <3>1. CASE i \in DOMAIN entries  BY <2>3, <3>1 DEF FileInv
    <3>2. CASE i = Len(entries) + 1  BY <2>2, <2>3, <3>2
    <3>  QED  BY <2>3, <3>1, <3>2
  <2>  QED  BY <1>1, <2>4 DEF FileInv, Listed
<1>  QED  BY <1>3, <1>4

LEMMA FileNext == ASSUME ProfInv, FileInv, [ProfileNext]_vars  PROVE FileInv'
<1>1. CASE ReadStep \/ \E op \in Ops, ctx \in Context, sig \in Sig : Call(op, ctx, sig)
  <2>1. UNCHANGED dirVars /\ phase = "open"
    BY <1>1 DEF ReadStep, Call, FollowLink, ReturnAbsent, ReturnCached, ReturnDecoded,
                ReturnTrueType, ReturnRaw, Found, ProfInv, SearchInv
  <2>  QED  BY <2>1 DEF FileInv, Listed, dirVars
<1>2. CASE UNCHANGED vars  BY <1>2 DEF FileInv, Listed, vars, dirVars
<1>3. CASE OpenStep
  <2>1. ASSUME NEW f \in Files, Open(f)  PROVE FileInv'
    BY <2>1 DEF Open, FileInv
  <2>2. CASE ParseEntry  BY <1>3, <2>2, FileParseEntry DEF OpenStep, ProfInv
  <2>3. CASE Truncated \/ FinishDirectory
    BY <2>3 DEF Truncated, FinishDirectory, FileInv, Listed
  <2>  QED  BY <1>3, <2>1, <2>2, <2>3 DEF OpenStep, ParseStep
<1>  QED  BY <1>1, <1>2, <1>3 DEF ProfileNext

LEMMA FileInvariant == ProfileSpec => [](ProfInv /\ FileInv)
<1>1. ProfileInit => FileInv  BY DEF ProfileInit, Init, FileInv
<1>2. ProfInv /\ FileInv /\ [ProfileNext]_vars => FileInv'  BY FileNext
<1>  QED  BY <1>1, <1>2, ProfileInvariant, PTL DEF ProfileSpec

-----------------------------------------------------------------------------
\* The range the abstract reader has for a tag is its own entry's.
Ranges ==
    [s \in {entries[i].sig : i \in DOMAIN entries} |->
        [offset |-> OwnEntry(s).offset, size |-> OwnEntry(s).size]]

LEMMA RangesOf ==
    ASSUME ProfInv, NEW sig
    PROVE  LET own == TagEntryOf(entries, sig)
           IN  /\ sig \in DOMAIN Ranges <=> own # 0
               /\ own # 0 => SameRange(entries[own], Ranges[sig])
<1> DEFINE own == TagEntryOf(entries, sig)
           Tags == {entries[i].sig : i \in DOMAIN entries}
<1>1. entries \in Seq(TagEntry)  BY DEF ProfInv, DirInv, TypeOK
<1>2. sig \in Tags <=> own # 0
  <2>1. ASSUME own # 0  PROVE sig \in Tags
    <3>1. own \in DOMAIN entries /\ entries[own].sig = sig  BY <1>1, <2>1, TagEntryOfFirst
    <3>  QED  BY <3>1
  <2>2. ASSUME sig \in Tags  PROVE own # 0
    <3>1. PICK j \in DOMAIN entries : entries[j].sig = sig  BY <2>2
    <3>  QED  BY <1>1, <3>1, TagEntryOfFirst
  <2>  QED  BY <2>1, <2>2
<1>3. ASSUME own # 0
      PROVE  Ranges[sig] = [offset |-> entries[own].offset, size |-> entries[own].size]
  <2> HIDE DEF Tags
  <2>  QED  BY <1>2, <1>3 DEF Ranges, OwnEntry, Tags
<1>4. own # 0 => SameRange(entries[own], Ranges[sig])  BY <1>3 DEF SameRange
<1>5. DOMAIN Ranges = Tags  BY DEF Ranges
<1>  QED  BY <1>2, <1>4, <1>5

LEMMA OwnRange ==
    ASSUME ProfInv, phase = "open", NEW sig
    PROVE  LET own == TagEntryOf(entries, sig)
           IN  /\ sig \in DOMAIN OwnRanges <=> own # 0
               /\ own # 0 => SameRange(entries[own], OwnRanges[sig])
<1>1. OwnRanges = Ranges  BY DEF OwnRanges, Ranges
<1>  QED  BY <1>1, RangesOf

LEMMA RefinesInit == ProfileInit => Reader!ReaderInit
  BY DEF ProfileInit, Init, Reader!ReaderInit, OwnRanges

\* A return is an answer of the abstract reader, from the tag's own range.
LEMMA RefinesReturn ==
    ASSUME ProfInv, Returning
    PROVE  Reader!ReaderNext
<1> DEFINE sig == request.sig
           ctx == request.ctx
           own == TagEntryOf(entries, sig)
<1>1. PICK result : Return(result) /\ Answers(request.op, ctx, sig, result)
  BY ReturnAnswers
<1>2. request # NoRequest /\ UNCHANGED dirVars
  BY DEF Returning, ReturnAbsent, ReturnCached, ReturnDecoded, ReturnTrueType, ReturnRaw, Found
<1>3. phase = "open" /\ request.op \in Ops /\ ctx \in Context /\ sig \in Sig
  BY <1>2 DEF ProfInv, SearchInv, Request
<1>4. UNCHANGED <<phase, file, entries>> /\ UNCHANGED OwnRanges
  BY <1>2 DEF dirVars, OwnRanges, OwnEntry
<1>5. Reader!Reply(request.op, ctx, sig, result)
  BY <1>1, <1>3, <1>4 DEF Return, Reader!Reply
<1>6. sig \in DOMAIN OwnRanges <=> own # 0  BY <1>3, OwnRange
<1>7. CASE own = 0
  <2>1. Reader!Absent(request.op, ctx, sig)
    BY <1>1, <1>5, <1>6, <1>7, SameResults DEF Answers, Reader!Absent
  <2>  QED  BY <1>3, <2>1 DEF Reader!ReaderNext, Ops, Reader!Ops
<1>8. CASE own # 0
  <2> DEFINE range == OwnRanges[sig]
  <2>1. /\ sig \in DOMAIN OwnRanges /\ SameRange(entries[own], range)
        /\ entries[own].offset = range.offset /\ entries[own].size = range.size
    BY <1>3, <1>8, OwnRange DEF SameRange
  <2>2. /\ PluginFree(file, entries[own], sig) <=> PluginFree(file, range, sig)
        /\ RawAt(file, entries[own]) = RawAt(file, range)
        /\ TrueTypeAt(file, entries[own]) = TrueTypeAt(file, range)
    BY <2>1 DEF PluginFree, RawAt, TrueTypeAt
  <2>3. \A c : ReadRange(file, entries[own], c, sig) = ReadRange(file, range, c, sig)
    <3>1. Alike(sig, sig)  BY DEF Alike
    <3>  QED  BY <2>1, <3>1, ReadAlike
  <2>  HIDE DEF range
  <2>4. CASE request.op = "read_tag_in"
    <3>1. PICK c \in IF PluginFree(file, entries[own], sig) THEN {ctx} ELSE Context :
             result = ReadRange(file, entries[own], c, sig) /\ (c = ctx \/ result.ok)
      BY <1>1, <1>8, <2>4 DEF Answers
    <3>  QED  BY <1>3, <1>5, <2>1, <2>2, <2>3, <2>4, <3>1, SameReads, SameQueries
         DEF range, Reader!ReaderNext, Reader!ReadTagIn
  <2>5. CASE request.op = "read_tag_raw"
    <3>1. result = RawAt(file, range)  BY <1>1, <1>8, <2>2, <2>5 DEF Answers
    <3>  QED  BY <1>3, <1>5, <2>1, <2>5, <3>1, SameQueries
         DEF range, Reader!ReaderNext, Reader!ReadTagRaw
  <2>6. CASE request.op = "tag_true_type"
    <3>1. result = TrueTypeAt(file, range)  BY <1>1, <1>8, <2>2, <2>6 DEF Answers
    <3>  QED  BY <1>3, <1>5, <2>1, <2>6, <3>1, SameQueries
         DEF range, Reader!ReaderNext, Reader!TagTrueType
  <2>  QED  BY <1>3, <2>4, <2>5, <2>6 DEF Ops
<1>  QED  BY <1>7, <1>8

LEMMA RefinesFinish ==
    ASSUME ProfInv, FileInv, FinishDirectory, UNCHANGED <<cache, request, reply>>
    PROVE  Reader!ReaderNext
<1>1. /\ phase = "parsing" /\ UNCHANGED <<file, seen, entries, reply>> /\ file \in Files
      /\ phase' = IF HasDuplicate(entries) THEN "failed" ELSE "open"
  BY DEF FinishDirectory, FileInv
<1>2. CASE HasDuplicate(entries)
  BY <1>1, <1>2 DEF Reader!ReaderNext, Reader!OpenFails, OwnRanges
<1>3. CASE ~HasDuplicate(entries)
  <2>1. ProfInv' /\ phase' = "open"  BY <1>1, <1>3, ParseFileInv DEF ParseStep
  <2>2. ASSUME NEW s \in DOMAIN OwnRanges'
        PROVE  s \in Sig /\ HoldsTag(file, s, OwnRanges'[s])
    <3> DEFINE own == TagEntryOf(entries, s)
    <3>1. /\ own # 0 /\ SameRange(entries[own], OwnRanges'[s])
      <4>1. OwnRanges' = Ranges  BY <1>1, <2>1 DEF OwnRanges, Ranges, OwnEntry
      <4>  QED  BY <2>2, <4>1, RangesOf
    <3>2. own \in DOMAIN entries /\ entries[own].sig = s /\ entries[own] \in TagEntry
      <4>1. entries \in Seq(TagEntry)  BY DEF ProfInv, DirInv, TypeOK
      <4>  QED  BY <3>1, <4>1, TagEntryOfFirst
    <3>3. PICK k \in 1..file.count :
             file.table[k].sig = entries[own].sig /\ SameRange(file.table[k], entries[own])
      BY <3>2 DEF FileInv, Listed
    <3>4. /\ entries[own].offset > 0 /\ entries[own].size > 0
          /\ entries[own].offset + entries[own].size <= file.len
      BY <3>2 DEF ProfInv, DirInv, EntriesInBounds
    <3>  QED  BY <3>1, <3>2, <3>3, <3>4 DEF HoldsTag, SameRange, TagEntry
  <2>3. DOMAIN OwnRanges' \subseteq Sig  BY <2>2
  <2>4. Reader!OpenSucceeds
    BY <1>1, <2>1, <2>2, <2>3, SameQueries DEF Reader!OpenSucceeds
  <2>  QED  BY <2>4 DEF Reader!ReaderNext
<1>  QED  BY <1>2, <1>3

LEMMA RefinesOpening ==
    ASSUME ProfInv, FileInv, OpenStep, phase' # phase \/ phase = "parsing"
    PROVE  [Reader!ReaderNext]_(Reader!readerVars)
<1>1. ASSUME NEW f \in Files, Open(f)
      PROVE  [Reader!ReaderNext]_(Reader!readerVars)
  <2>1. /\ phase = "closed" /\ file = NoFile /\ UNCHANGED reply
        /\ file' = f /\ phase' \in {"parsing", "failed"}
    BY <1>1 DEF Open, OpenStep, ProfInv, DirInv, TypeOK
  <2>2. OwnRanges = <<>> /\ OwnRanges' = <<>>  BY <2>1 DEF OwnRanges
  <2>3. CASE phase' = "parsing"  BY <2>1, <2>2, <2>3 DEF Reader!readerVars
  <2>4. CASE phase' = "failed"
    BY <2>1, <2>2, <2>4 DEF Reader!ReaderNext, Reader!OpenFails
  <2>  QED  BY <2>1, <2>3, <2>4
<1>2. CASE ParseEntry
  <2>1. phase = "parsing" /\ phase' = "parsing" /\ UNCHANGED reply
    BY <1>2 DEF ParseEntry, OpenStep
  <2>  QED  BY <2>1 DEF Reader!readerVars, OwnRanges
<1>3. CASE Truncated
  <2>1. /\ phase = "parsing" /\ phase' = "failed" /\ UNCHANGED <<file, reply>>
        /\ file \in Files
    BY <1>3 DEF Truncated, OpenStep, FileInv
  <2>2. OwnRanges = <<>> /\ OwnRanges' = <<>>  BY <2>1 DEF OwnRanges
  <2>  QED  BY <2>1, <2>2 DEF Reader!ReaderNext, Reader!OpenFails
<1>4. CASE FinishDirectory  BY <1>4, RefinesFinish DEF OpenStep
<1>  QED  BY <1>1, <1>2, <1>3, <1>4 DEF OpenStep, ParseStep

LEMMA RefinesNext ==
    ASSUME ProfInv, FileInv, [ProfileNext]_vars
    PROVE  [Reader!ReaderNext]_(Reader!readerVars)
<1>1. CASE OpenStep
  BY <1>1, RefinesOpening
  DEF OpenStep, ParseStep, Open, ParseEntry, Truncated, FinishDirectory
<1>2. ASSUME NEW op \in Ops, NEW ctx \in Context, NEW sig \in Sig, Call(op, ctx, sig)
      PROVE  Reader!ReaderNext
  <2>1. UNCHANGED dirVars /\ reply' = NoRequest  BY <1>2 DEF Call
  <2>2. UNCHANGED <<phase, file>> /\ UNCHANGED OwnRanges
    BY <2>1 DEF dirVars, OwnRanges, OwnEntry
  <2>  QED  BY <2>1, <2>2 DEF Reader!ReaderNext, Reader!Forget
<1>3. CASE FollowLink \/ UNCHANGED vars
  <2>1. UNCHANGED dirVars /\ UNCHANGED reply  BY <1>3 DEF FollowLink, vars
  <2>2. UNCHANGED <<phase, file>> /\ UNCHANGED OwnRanges
    BY <2>1 DEF dirVars, OwnRanges, OwnEntry
  <2>  QED  BY <2>1, <2>2 DEF Reader!readerVars
<1>4. CASE Returning  BY <1>4, RefinesReturn
<1>  QED  BY <1>1, <1>2, <1>3, <1>4 DEF ProfileNext, ReadStep, Returning

(***************************************************************************)
(* For every set of files, descriptor table and set of contexts: directory  *)
(* loop, link chase and cache implement the plain lookup of TagReader.      *)
(***************************************************************************)
THEOREM ProfileImplementsReader == ProfileSpec => ReaderRefined
<1>1. ProfInv /\ FileInv /\ [ProfileNext]_vars => [Reader!ReaderNext]_(Reader!readerVars)
  BY RefinesNext
<1>  QED  BY <1>1, RefinesInit, FileInvariant, PTL
     DEF ProfileSpec, ReaderRefined, Reader!ReaderSpec

=============================================================================
