--------------------------- MODULE Lifecycle_proofs ---------------------------
(***************************************************************************)
(* Proofs about a profile's whole life, for every slot table, descriptor    *)
(* table, context and word width: what save_to_mem_in returns opens again   *)
(* with every tag, and its tags read as the values they were added with.    *)
(***************************************************************************)
EXTENDS Lifecycle, Profile_proofs

-----------------------------------------------------------------------------
(* The writer: both passes of a save, for every slot table, every set of     *)
(* values padded as the builtin writers pad, and every word width, place     *)
(* every body at the same position.                                         *)

\* The bytes of a body with its type base, and with the padding behind it,
\* from any position divisible by four.
SizeOf(slot) == BodyEnd(slot.value, TypeBase)
Stride(slot) == RoundUp(SizeOf(slot), 4)

Body(s, i) == i \in DOMAIN s /\ ~IsLink(s[i])
NoBodyIn(s, S) == \A j \in S : ~Body(s, j)

BodyRecord(slot) ==
    [type |-> SlotType(slot), data |-> slot.value.data,
     length |-> SizeOf(slot) - TypeBase, decoders |-> slot.value.decoders]

Extent == [offset : Nat, size : Nat]

SaveTypeOK ==
    /\ headerValid \in BOOLEAN
    /\ slots \in Seq(Slot)
    /\ stage \in {"building", "layout", "links", "write", "saved", "failed"}
    /\ at \in 1..(Len(slots) + 1)
    /\ position \in Nat
    /\ total \in Nat
    /\ stage = "building" => at = 1
    /\ stage # "building" => layouts \in [DOMAIN slots -> Extent \cup {NoLayout}]

(***************************************************************************)
(* Up to slot `lim` of s, laid out in l, the first body from slot k on lies *)
(* at `from`; if there is none, the bodies end there.                       *)
(***************************************************************************)
Continues(s, l, k, from, lim, end) ==
    /\ \A i \in k..(lim - 1) : Body(s, i) /\ NoBodyIn(s, k..(i - 1)) => l[i].offset = from
    /\ NoBodyIn(s, k..(lim - 1)) => end = from

Placed(s, l, i, end) ==
    /\ l[i] \in Extent
    /\ l[i].size = SizeOf(s[i])
    /\ l[i].size <= U32Max
    /\ l[i].offset % 4 = 0
    /\ BodyStart(Len(s)) <= l[i].offset
    /\ l[i].offset + Stride(s[i]) <= end
    /\ Writable(s[i])

\* The bodies before slot `lim` are laid out one behind the other up to `end`.
LaidOut(s, l, lim, end) ==
    /\ BodyStart(Len(s)) <= end
    /\ Continues(s, l, 1, BodyStart(Len(s)), lim, end)
    /\ \A i \in 1..(lim - 1) : Body(s, i) =>
          /\ Placed(s, l, i, end)
          /\ Continues(s, l, i + 1, l[i].offset + Stride(s[i]), lim, end)

Laid == LaidOut(slots, layouts, Len(slots) + 1, total) /\ total <= U32Max

Linked(i) ==
    IsLink(slots[i]) =>
        /\ BodySlot(slots[i].linked) # 0
        /\ layouts[i] = layouts[BodySlot(slots[i].linked)]

LayoutInv ==
    stage = "layout" =>
        /\ position % 4 = 0
        /\ LaidOut(slots, layouts, at, BodyStart(Len(slots)) + position)

LinksInv ==
    /\ stage = "links" => Laid /\ (\A i \in 1..(at - 1) : Linked(i))
    /\ stage \in {"write", "saved"} => Laid /\ (\A i \in DOMAIN slots : Linked(i))

\* Pass 2 so far: it stands where the next body belongs, behind all it wrote.
WriteInv ==
    stage \in {"write", "saved"} =>
        /\ position % 4 = 0
        /\ position >= BodyStart(Len(slots))
        /\ Continues(slots, layouts, at, position, Len(slots) + 1, total)
        /\ \A p \in DOMAIN written : p \in Nat /\ p < position
        /\ \A i \in 1..(at - 1) : Body(slots, i) =>
              /\ layouts[i].offset \in DOMAIN written
              /\ written[layouts[i].offset] = BodyRecord(slots[i])

Unwritten == stage \in {"building", "layout", "links"} => written = <<>>

Finished == stage \in {"saved"} => at = Len(slots) + 1

SaveInv == SaveTypeOK /\ LayoutInv /\ LinksInv /\ WriteInv /\ Unwritten /\ Finished

-----------------------------------------------------------------------------
LEMMA RoundUpFacts ==
    ASSUME NEW n \in Nat, NEW k \in {1, 4}
    PROVE  /\ RoundUp(n, k) \in Nat
           /\ n <= RoundUp(n, k)
           /\ RoundUp(n, k) % k = 0
<1>1. CASE k = 1  BY <1>1 DEF RoundUp
<1>2. CASE k = 4  BY <1>2 DEF RoundUp
<1>  QED  BY <1>1, <1>2

LEMMA RoundUpShift ==
    ASSUME NEW n \in Nat, NEW d \in Nat, d % 4 = 0, NEW k \in {1, 4}
    PROVE  RoundUp(d + n, k) = d + RoundUp(n, k)
<1>1. CASE k = 1  BY <1>1 DEF RoundUp
<1>2. CASE k = 4
  <2>1. (d + n) % 4 = n % 4  OBVIOUS
  <2>2. n % 4 \in Nat  OBVIOUS
  <2>  QED  BY <1>2, <2>1, <2>2 DEF RoundUp
<1>  QED  BY <1>1, <1>2

LEMMA BodyValue ==
    ASSUME NEW slot \in Slot, ~IsLink(slot)
    PROVE  /\ slot.sig \in Sig /\ slot.linked = NoLink
           /\ slot.value \in Value
           /\ IsValue(slot.value) /\ slot.value.align \in {1, 4}
<1>1. slot.sig \in Sig /\ slot.value \in Value /\ slot.linked = NoLink
  BY SerializerAssumption DEF Slot, IsLink
<1>  QED  BY <1>1, SerializerAssumption, BuiltinWriters

(***************************************************************************)
(* A body and its padding take the same bytes wherever they start, as long  *)
(* as it is at a multiple of four: what the two passes have in common.      *)
(***************************************************************************)
LEMMA SameSizeAnywhere ==
    ASSUME NEW slot \in Slot, ~IsLink(slot), NEW p \in Nat, p % 4 = 0
    PROVE  LET end == BodyEnd(slot.value, p + TypeBase)
           IN  /\ end = p + SizeOf(slot)
               /\ RoundUp(end, 4) = p + Stride(slot)
               /\ SizeOf(slot) \in Nat /\ SizeOf(slot) >= TypeBase
               /\ Stride(slot) \in Nat /\ Stride(slot) >= SizeOf(slot)
               /\ (p + Stride(slot)) % 4 = 0
<1> DEFINE v == slot.value
           size == SizeOf(slot)
           end == BodyEnd(v, p + TypeBase)
<1>1. v.lead \in Nat /\ v.tail \in Nat /\ v.align \in {1, 4}
  BY BodyValue DEF IsValue
<1>  HIDE DEF v
<1>2. RoundUp(8 + v.lead, v.align) \in Nat /\ RoundUp(8 + v.lead, v.align) >= 8 + v.lead
  BY <1>1, RoundUpFacts
<1>3. RoundUp((p + 8) + v.lead, v.align) = p + RoundUp(8 + v.lead, v.align)
  <2> DEFINE n == 8 + v.lead
  <2>1. (p + 8) + v.lead = p + n /\ n \in Nat  BY <1>1
  <2>  HIDE DEF n
  <2>2. RoundUp(p + n, v.align) = p + RoundUp(n, v.align)  BY <1>1, <2>1, RoundUpShift
  <2>  QED  BY <2>1, <2>2 DEF n
<1>4. size = RoundUp(8 + v.lead, v.align) + v.tail  BY DEF v, SizeOf, BodyEnd, TypeBase
<1>5. end = p + size /\ size \in Nat /\ size >= 8
  BY <1>1, <1>2, <1>3, <1>4 DEF BodyEnd, TypeBase
<1>  HIDE DEF size, end
<1>6. /\ RoundUp(end, 4) = p + RoundUp(size, 4)
      /\ RoundUp(size, 4) \in Nat /\ RoundUp(size, 4) >= size
      /\ RoundUp(size, 4) % 4 = 0
  BY <1>5, RoundUpShift, RoundUpFacts
<1>7. (p + RoundUp(size, 4)) % 4 = 0
  <2>1. \A x, y \in Nat : x % 4 = 0 /\ y % 4 = 0 => (x + y) % 4 = 0  OBVIOUS
  <2>  QED  BY <1>6, <2>1
<1>  QED  BY <1>5, <1>6, <1>7 DEF size, end, v, Stride, TypeBase

LEMMA BodyStartAligned ==
    ASSUME NEW n \in Nat
    PROVE  BodyStart(n) \in Nat /\ BodyStart(n) % 4 = 0 /\ BodyStart(n) = 128 + 4 + 12 * n
  BY DEF BodyStart

\* The slot a link names is the first body with that signature, or none.
LEMMA BodySlotFirst ==
    ASSUME slots \in Seq(Slot), NEW sig
    PROVE  LET j == BodySlot(sig)
           IN  /\ j # 0 => Body(slots, j) /\ slots[j].sig = sig
               /\ \A i : Body(slots, i) /\ slots[i].sig = sig => j # 0 /\ j <= i
<1> DEFINE bodies == {j \in DOMAIN slots : slots[j].sig = sig /\ ~IsLink(slots[j])}
<1>1. bodies \in SUBSET (1..Len(slots)) /\ Len(slots) \in Nat  OBVIOUS
<1>2. CASE bodies = {}  BY <1>2 DEF BodySlot, Body
<1>3. CASE bodies # {}
  <2>1. Min(bodies) \in bodies /\ \A k \in bodies : Min(bodies) <= k
    <3> HIDE DEF bodies
    <3>  QED  BY <1>1, <1>3, FirstIndex
  <2>2. BodySlot(sig) = Min(bodies)  BY <1>3, Zenon DEF BodySlot
  <2>3. Min(bodies) # 0 /\ Body(slots, Min(bodies)) /\ slots[Min(bodies)].sig = sig
    <3>1. \A k \in bodies : k # 0 /\ Body(slots, k) /\ slots[k].sig = sig
      BY <1>1 DEF Body
    <3>  HIDE DEF bodies
    <3>  QED  BY <2>1, <3>1
  <2>4. \A i : Body(slots, i) /\ slots[i].sig = sig => i \in bodies  BY DEF Body
  <2>  HIDE DEF bodies
  <2>  QED  BY <2>1, <2>2, <2>3, <2>4
<1>  QED  BY <1>2, <1>3

-----------------------------------------------------------------------------
\* A link takes no room.
LEMMA PassLink ==
    ASSUME NEW s \in Seq(Slot), NEW l, NEW n \in DOMAIN s, IsLink(s[n]), NEW end,
           LaidOut(s, l, n, end)
    PROVE  LaidOut(s, l, n + 1, end)
<1>1. ~Body(s, n) /\ n \in Nat /\ n >= 1  BY DEF Body
<1>2. ASSUME NEW k \in Nat, k <= n, NEW from, Continues(s, l, k, from, n, end)
      PROVE  Continues(s, l, k, from, n + 1, end)
  BY <1>1, <1>2 DEF Continues, NoBodyIn
<1>3. Continues(s, l, 1, BodyStart(Len(s)), n + 1, end)  BY <1>1, <1>2 DEF LaidOut
<1>4. ASSUME NEW i \in 1..((n + 1) - 1), Body(s, i)
      PROVE  /\ Placed(s, l, i, end)
             /\ Continues(s, l, i + 1, l[i].offset + Stride(s[i]), n + 1, end)
  <2>1. i \in 1..(n - 1) /\ i + 1 \in Nat /\ i + 1 <= n  BY <1>1, <1>4
  <2>2. /\ Placed(s, l, i, end)
        /\ Continues(s, l, i + 1, l[i].offset + Stride(s[i]), n, end)
    BY <2>1, <1>4 DEF LaidOut
  <2>  QED  BY <1>2, <2>1, <2>2
<1>  QED  BY <1>3, <1>4 DEF LaidOut

\* The next body goes to the end and moves it.
LEMMA PassBody ==
    ASSUME NEW s \in Seq(Slot), NEW l, NEW n \in DOMAIN s, ~IsLink(s[n]),
           NEW end \in Nat, end % 4 = 0, LaidOut(s, l, n, end),
           NEW m, \A i \in 1..(n - 1) : m[i] = l[i],
           m[n] = [offset |-> end, size |-> SizeOf(s[n])],
           Writable(s[n]), SizeOf(s[n]) <= U32Max
    PROVE  LaidOut(s, m, n + 1, end + Stride(s[n]))
<1> DEFINE new == end + Stride(s[n])
<1>1. Body(s, n) /\ n \in Nat /\ n >= 1 /\ s[n] \in Slot  BY DEF Body
<1>2. SizeOf(s[n]) \in Nat /\ Stride(s[n]) \in Nat  BY <1>1, SameSizeAnywhere
<1>3. m[n] \in Extent /\ m[n].offset = end /\ m[n].size = SizeOf(s[n])
  BY <1>2 DEF Extent
<1>4. ASSUME NEW k \in Nat, k <= n, k >= 1, NEW from, Continues(s, l, k, from, n, end)
      PROVE  Continues(s, m, k, from, n + 1, new)
  <2>1. \A i \in k..(n - 1) : i \in 1..(n - 1) /\ m[i] = l[i]  BY <1>1, <1>4
  <2>2. ~NoBodyIn(s, k..((n + 1) - 1))  BY <1>1, <1>4 DEF NoBodyIn
  <2>3. ASSUME NEW i \in k..((n + 1) - 1), Body(s, i), NoBodyIn(s, k..(i - 1))
        PROVE  m[i].offset = from
    <3>1. CASE i = n  BY <1>3, <1>4, <2>3, <3>1 DEF Continues
    <3>2. CASE i # n
      <4>1. i \in k..(n - 1)  BY <1>1, <1>4, <2>3, <3>2
      <4>  QED  BY <1>4, <2>1, <2>3, <4>1 DEF Continues
    <3>  QED  BY <3>1, <3>2
  <2>  QED  BY <2>2, <2>3 DEF Continues
<1>5. BodyStart(Len(s)) \in Nat /\ BodyStart(Len(s)) <= end /\ BodyStart(Len(s)) <= new
  <2>1. BodyStart(Len(s)) \in Nat  BY BodyStartAligned
  <2>  QED  BY <1>2, <2>1 DEF LaidOut
<1>6. Continues(s, m, 1, BodyStart(Len(s)), n + 1, new)  BY <1>1, <1>4 DEF LaidOut
<1>7. ASSUME NEW i \in 1..((n + 1) - 1), Body(s, i)
      PROVE  /\ Placed(s, m, i, new)
             /\ Continues(s, m, i + 1, m[i].offset + Stride(s[i]), n + 1, new)
  <2>1. CASE i = n
    <3>1. Placed(s, m, i, new)
      <4>1. end + Stride(s[n]) <= end + Stride(s[n])  BY <1>2
      <4>  QED  BY <1>3, <1>5, <2>1, <4>1, Zenon DEF Placed
    <3>2. Continues(s, m, n + 1, new, n + 1, new)  BY <1>1 DEF Continues
    <3>  QED  BY <1>3, <2>1, <3>1, <3>2
  <2>2. CASE i # n
    <3>1. i \in 1..(n - 1) /\ i + 1 \in Nat /\ i + 1 <= n /\ i + 1 >= 1  BY <1>1, <1>7, <2>2
    <3>2. /\ Placed(s, l, i, end) /\ m[i] = l[i]
          /\ Continues(s, l, i + 1, l[i].offset + Stride(s[i]), n, end)
      BY <1>7, <3>1 DEF LaidOut
    <3>3. Stride(s[i]) \in Nat
      <4>1. s[i] \in Slot /\ ~IsLink(s[i])  BY <1>7 DEF Body
      <4>  QED  BY <4>1, SameSizeAnywhere
    <3>4. Placed(s, m, i, new)
      <4>1. m[i].offset \in Nat /\ m[i].offset + Stride(s[i]) <= end  BY <3>2 DEF Placed, Extent
      <4>2. m[i].offset + Stride(s[i]) <= new  BY <1>2, <3>3, <4>1
      <4> HIDE DEF new
      <4>  QED  BY <3>2, <4>2, Zenon DEF Placed
    <3>  QED  BY <1>4, <3>1, <3>2, <3>4
  <2>  QED  BY <2>1, <2>2
<1>  QED  BY <1>5, <1>6, <1>7 DEF LaidOut

\* What lies at links does not matter.
LEMMA SameBodies ==
    ASSUME NEW s \in Seq(Slot), NEW l, NEW m, NEW lim \in Nat, NEW end,
           \A i : Body(s, i) => m[i] = l[i]
    PROVE  /\ LaidOut(s, l, lim, end) => LaidOut(s, m, lim, end)
           /\ \A k, from : Continues(s, l, k, from, lim, end) => Continues(s, m, k, from, lim, end)
<1>1. \A k, from : Continues(s, l, k, from, lim, end) => Continues(s, m, k, from, lim, end)
  BY DEF Continues
<1>2. \A i : Body(s, i) /\ Placed(s, l, i, end) => Placed(s, m, i, end)
  BY DEF Placed
<1>  QED  BY <1>1, <1>2 DEF LaidOut

-----------------------------------------------------------------------------
LEMMA SaveInitInv == SaveInit => SaveInv
BY DEF SaveInit, SaveInv, SaveTypeOK, LayoutInv, LinksInv, WriteInv, Unwritten, Finished

LEMMA AddSlotInv ==
    ASSUME SaveInv, NEW slot \in Slot, AddSlot(slot)
    PROVE  SaveInv'
<1>1. SaveTypeOK'
  <2>1. slots' \in Seq(Slot) /\ Len(slots') = Len(slots) + 1
    BY DEF SaveInv, SaveTypeOK, AddSlot
  <2>  QED  BY <2>1 DEF SaveInv, SaveTypeOK, AddSlot
<1>2. stage' = "building" /\ written' = written /\ stage = "building"  BY DEF AddSlot
<1>  QED
  BY <1>1, <1>2 DEF SaveInv, LayoutInv, LinksInv, WriteInv, Unwritten, Finished

LEMMA AddedSlots ==
    /\ \A sig \in Sig, value \in Value :
          [sig |-> sig, value |-> value, linked |-> NoLink] \in Slot
    /\ \A sig, target \in Sig : [sig |-> sig, value |-> NoValue, linked |-> target] \in Slot
BY DEF Slot

LEMMA StartSaveInv == SaveInv /\ StartSave => SaveInv'
<1> SUFFICES ASSUME SaveInv, StartSave PROVE SaveInv'  OBVIOUS
<1>1. SaveTypeOK'  BY DEF SaveInv, SaveTypeOK, StartSave
<1>2. LaidOut(slots', layouts', 1, BodyStart(Len(slots)) + 0)
  <2>1. BodyStart(Len(slots)) \in Nat /\ slots' = slots
    BY BodyStartAligned DEF SaveInv, SaveTypeOK, StartSave
  <2>  QED  BY <2>1 DEF LaidOut, Continues, NoBodyIn
<1>3. LayoutInv'  BY <1>2 DEF LayoutInv, StartSave
<1>4. Unwritten'  BY DEF SaveInv, Unwritten, StartSave
<1>  QED
  BY <1>1, <1>3, <1>4 DEF SaveInv, StartSave, LinksInv, WriteInv, Finished

LEMMA FailInv ==
    ASSUME SaveInv, stage # "building", Fail
    PROVE  SaveInv'
BY DEF SaveInv, SaveTypeOK, LayoutInv, LinksInv, WriteInv, Unwritten, Finished, Fail

LEMMA LinksKept ==
    ASSUME UNCHANGED <<slots, layouts, total>>
    PROVE  (Laid => Laid') /\ (\A i : Linked(i) => Linked(i)')
<1>1. ASSUME NEW i, Linked(i)  PROVE Linked(i)'
  <2> DEFINE t == BodySlot(slots[i].linked)
  <2>1. t' = t  BY DEF BodySlot
  <2>  QED  BY <1>1, <2>1 DEF Linked
<1>  QED  BY <1>1 DEF Laid

LEMMA SaveStutter == SaveInv /\ UNCHANGED saveVars => SaveInv'
<1> SUFFICES ASSUME SaveInv, UNCHANGED saveVars PROVE SaveInv'  OBVIOUS
<1>1. SaveTypeOK'  BY DEF SaveInv, SaveTypeOK, saveVars
<1>2. LayoutInv' /\ WriteInv'  BY DEF SaveInv, LayoutInv, WriteInv, saveVars
<1>3. LinksInv'  BY LinksKept DEF SaveInv, LinksInv, saveVars
<1>4. Unwritten' /\ Finished'  BY DEF SaveInv, Unwritten, Finished, saveVars
<1>  QED  BY <1>1, <1>2, <1>3, <1>4 DEF SaveInv

-----------------------------------------------------------------------------
LEMMA SlotTable ==
    ASSUME SaveInv
    PROVE  /\ slots \in Seq(Slot) /\ Len(slots) \in Nat /\ DOMAIN slots = 1..Len(slots)
           /\ at \in Nat /\ at >= 1 /\ at <= Len(slots) + 1
           /\ at \in DOMAIN slots <=> at <= Len(slots)
           /\ position \in Nat
           /\ BodyStart(Len(slots)) \in Nat
           /\ BodyStart(Len(slots)) % 4 = 0
<1>1. slots \in Seq(Slot) /\ Len(slots) \in Nat /\ DOMAIN slots = 1..Len(slots)
  BY DEF SaveInv, SaveTypeOK
<1>2. at \in 1..(Len(slots) + 1) /\ position \in Nat  BY DEF SaveInv, SaveTypeOK
<1>  QED  BY <1>1, <1>2, BodyStartAligned

LEMMA SkipLinkInv == SaveInv /\ SkipLink => SaveInv'
<1> SUFFICES ASSUME SaveInv, SkipLink PROVE SaveInv'  OBVIOUS
<1> USE SlotTable
<1>1. SaveTypeOK'  BY DEF SaveInv, SaveTypeOK, SkipLink
<1>2. CASE stage = "layout"
  <2>1. LaidOut(slots, layouts, at, BodyStart(Len(slots)) + position) /\ position % 4 = 0
    BY <1>2 DEF SaveInv, LayoutInv
  <2>2. LaidOut(slots, layouts, at + 1, BodyStart(Len(slots)) + position)
    BY <2>1, PassLink, Zenon DEF SkipLink
  <2>3. LayoutInv'  BY <2>1, <2>2 DEF LayoutInv, SkipLink
  <2>  QED
    BY <1>1, <1>2, <2>3 DEF SaveInv, SkipLink, LinksInv, WriteInv, Unwritten, Finished
<1>3. CASE stage = "write"
  <2>1. ~Body(slots, at)  BY DEF SkipLink, Body
  <2>2. Continues(slots, layouts, at, position, Len(slots) + 1, total)
    BY <1>3 DEF SaveInv, WriteInv
  <2>3. Continues(slots, layouts, at + 1, position, Len(slots) + 1, total)
    <3>1. \A k \in Int : NoBodyIn(slots, (at + 1)..k) => NoBodyIn(slots, at..k)
      BY <2>1 DEF NoBodyIn
    <3>  QED  BY <2>2, <3>1 DEF Continues
  <2>4. \A i \in 1..((at + 1) - 1) : Body(slots, i) => i \in 1..(at - 1)  BY <2>1
  <2>5. WriteInv'  BY <1>3, <2>3, <2>4 DEF SaveInv, WriteInv, SkipLink
  <2>6. LinksInv'
    BY <1>3, LinksKept DEF SaveInv, LinksInv, SkipLink
  <2>  QED
    BY <1>1, <1>3, <2>5, <2>6 DEF SaveInv, SkipLink, LayoutInv, Unwritten, Finished
<1>  QED  BY <1>2, <1>3 DEF SkipLink

\* The next slot is still in the table, or just behind it.
LEMMA NextSlot ==
    ASSUME NEW n \in Nat, NEW i \in Nat, i >= 1, i <= n, NEW a \in Nat, NEW b \in Nat
    PROVE  i + 1 \in 1..(n + 1) /\ a + b \in Nat
  OBVIOUS

LEMMA LayoutSlotInv == SaveInv /\ LayoutSlot => SaveInv'
<1> SUFFICES ASSUME SaveInv, LayoutSlot PROVE SaveInv'  OBVIOUS
<1> USE SlotTable
<1> DEFINE slot == slots[at]
           begin == BodyStart(Len(slots)) + position
           end == BodyEnd(slot.value, position + TypeBase)
<1>1. stage = "layout" /\ at \in DOMAIN slots /\ ~IsLink(slot) /\ slot \in Slot
  BY DEF LayoutSlot
<1>2. LaidOut(slots, layouts, at, begin) /\ position % 4 = 0  BY <1>1 DEF SaveInv, LayoutInv
<1>3. /\ end = position + SizeOf(slot) /\ RoundUp(end, 4) = position + Stride(slot)
      /\ SizeOf(slot) \in Nat /\ Stride(slot) \in Nat /\ (position + Stride(slot)) % 4 = 0
  BY <1>1, <1>2, SameSizeAnywhere
<1>4. begin \in Nat /\ begin % 4 = 0
  <2>1. \A x, y \in Nat : x % 4 = 0 /\ y % 4 = 0 => x + y \in Nat /\ (x + y) % 4 = 0
    OBVIOUS
  <2>  QED  BY <1>2, <2>1
<1>5. end - position = SizeOf(slot)  BY <1>3
<1>6. CASE Fail  BY <1>1, <1>6, FailInv
<1>7. CASE ~Fail
  <2>1. /\ Writable(slot) /\ SizeOf(slot) <= U32Max
        /\ layouts' = [layouts EXCEPT ![at] = [offset |-> begin, size |-> SizeOf(slot)]]
        /\ position' = position + Stride(slot)
        /\ at' = at + 1
        /\ UNCHANGED <<headerValid, slots, stage, total, written>>
    <3> HIDE DEF begin
    <3>1. /\ Writable(slot) /\ end - position <= U32Max
          /\ layouts' = [layouts EXCEPT ![at] = [offset |-> begin, size |-> end - position]]
          /\ position' = RoundUp(end, 4)
          /\ at' = at + 1
          /\ UNCHANGED <<headerValid, slots, stage, total, written>>
      BY <1>7, Zenon DEF LayoutSlot, begin
    <3>  QED  BY <1>3, <1>5, <3>1
  <2> HIDE DEF begin, end
  <2>2. layouts \in [DOMAIN slots -> Extent \cup {NoLayout}]
    BY <1>1 DEF SaveInv, SaveTypeOK
  <2>3. /\ layouts'[at] = [offset |-> begin, size |-> SizeOf(slot)]
        /\ \A i \in 1..(at - 1) : layouts'[i] = layouts[i]
        /\ layouts' \in [DOMAIN slots -> Extent \cup {NoLayout}]
    <3> DEFINE rec == [offset |-> begin, size |-> SizeOf(slot)]
    <3>1. rec \in Extent  BY <1>3, <1>4 DEF Extent
    <3>2. layouts' = [layouts EXCEPT ![at] = rec]  BY <2>1
    <3> HIDE DEF rec
    <3>3. /\ layouts'[at] = rec /\ \A i \in 1..(at - 1) : layouts'[i] = layouts[i]
          /\ layouts' \in [DOMAIN slots -> Extent \cup {NoLayout}]
      BY <1>1, <2>2, <3>1, <3>2
    <3>  QED  BY <3>3 DEF rec
  <2>4. LaidOut(slots, layouts', at + 1, begin + Stride(slot))
    BY <1>1, <1>2, <1>4, <2>1, <2>3, PassBody
  <2>5. begin + Stride(slot) = BodyStart(Len(slots)) + position'  BY <1>3, <2>1 DEF begin
  <2>6. LayoutInv'  BY <1>3, <2>1, <2>4, <2>5 DEF LayoutInv
  <2>7. SaveTypeOK'
    <3>0. Len(slots) \in Nat /\ at \in Nat /\ at >= 1 /\ at <= Len(slots) /\ position \in Nat
      BY <1>1
    <3>1. at' \in 1..(Len(slots) + 1) /\ position' \in Nat
      <4> DEFINE n == Len(slots)
                 d == Stride(slot)
      <4>1. n \in Nat /\ d \in Nat /\ at <= n  BY <3>0, <1>3
      <4>2. at' = at + 1 /\ position' = position + d  BY <2>1
      <4> HIDE DEF n, d
      <4>3. at + 1 \in 1..(n + 1) /\ position + d \in Nat  BY <3>0, <4>1, NextSlot
      <4>  QED  BY <4>2, <4>3 DEF n
    <3>  QED  BY <1>1, <2>1, <2>3, <3>1 DEF SaveInv, SaveTypeOK
  <2>  QED
    BY <1>1, <2>1, <2>6, <2>7 DEF SaveInv, LinksInv, WriteInv, Unwritten, Finished
<1>  QED  BY <1>6, <1>7

LEMMA LayoutDoneInv == SaveInv /\ LayoutDone => SaveInv'
<1> SUFFICES ASSUME SaveInv, LayoutDone PROVE SaveInv'  OBVIOUS
<1> USE SlotTable
<1> DEFINE used == BodyStart(Len(slots)) + position
<1>1. stage = "layout" /\ at = Len(slots) + 1
  <2>1. stage = "layout" /\ at \notin DOMAIN slots  BY Zenon DEF LayoutDone
  <2>  QED  BY <2>1
<1>2. LaidOut(slots, layouts, at, used)  BY <1>1 DEF SaveInv, LayoutInv
<1>3. CASE Fail  BY <1>1, <1>3, FailInv
<1>4. CASE ~Fail
  <2>1. /\ used <= U32Max /\ stage' = "links" /\ at' = 1 /\ total' = used
        /\ UNCHANGED <<headerValid, slots, position, layouts, written>>
    BY <1>4, Zenon DEF LayoutDone
  <2>2. used \in Nat  OBVIOUS
  <2> HIDE DEF used
  <2>3. Laid'  BY <1>1, <1>2, <2>1 DEF Laid
  <2>4. SaveTypeOK'  BY <1>1, <2>1, <2>2 DEF SaveInv, SaveTypeOK
  <2>5. LinksInv'  BY <2>1, <2>3 DEF LinksInv
  <2>  QED
    BY <1>1, <2>1, <2>4, <2>5 DEF SaveInv, LayoutInv, WriteInv, Unwritten, Finished
<1>  QED  BY <1>3, <1>4

LEMMA ResolveLinkInv == SaveInv /\ ResolveLink => SaveInv'
<1> SUFFICES ASSUME SaveInv, ResolveLink PROVE SaveInv'  OBVIOUS
<1> USE SlotTable
<1> DEFINE j == IF IsLink(slots[at]) THEN BodySlot(slots[at].linked) ELSE at
<1>1. stage = "links" /\ at \in DOMAIN slots  BY DEF ResolveLink
<1>2. CASE j = 0
  <2>1. Fail  BY <1>2, Zenon DEF ResolveLink
  <2>  QED  BY <1>1, <2>1, FailInv
<1>3. CASE j # 0
  <2>1. /\ layouts' = [layouts EXCEPT ![at] = layouts[j]]
        /\ at' = at + 1
        /\ UNCHANGED <<headerValid, slots, stage, position, total, written>>
    BY <1>3, Zenon DEF ResolveLink
  <2>2. j \in DOMAIN slots /\ Body(slots, j) /\ (~IsLink(slots[at]) => j = at)
    BY <1>1, <1>3, BodySlotFirst DEF Body
  <2>3. IsLink(slots[at]) => j = BodySlot(slots[at].linked) /\ j # at
    BY <2>2 DEF Body
  <2> HIDE DEF j
  <2>4. layouts \in [DOMAIN slots -> Extent \cup {NoLayout}]
    BY <1>1 DEF SaveInv, SaveTypeOK
  <2>5. /\ layouts'[at] = layouts[j]
        /\ \A i \in DOMAIN slots : i # at => layouts'[i] = layouts[i]
        /\ layouts' \in [DOMAIN slots -> Extent \cup {NoLayout}]
    BY <1>1, <2>1, <2>2, <2>4
  <2>6. \A i : Body(slots, i) => layouts'[i] = layouts[i]
    BY <1>1, <2>2, <2>5 DEF Body
  <2>7. SaveTypeOK'  BY <1>1, <2>1, <2>5 DEF SaveInv, SaveTypeOK
  <2>8. Laid'
    <3>1. LaidOut(slots, layouts, Len(slots) + 1, total)
      BY <1>1 DEF SaveInv, LinksInv, Laid
    <3>2. Len(slots) + 1 \in Nat  OBVIOUS
    <3>3. LaidOut(slots, layouts', Len(slots) + 1, total)
      BY <2>6, <3>1, <3>2, SameBodies
    <3>  QED  BY <1>1, <2>1, <3>3 DEF SaveInv, LinksInv, Laid
  <2>9. ASSUME NEW i \in 1..((at + 1) - 1)
        PROVE  Linked(i)'
    <3> DEFINE t == BodySlot(slots[i].linked)
    <3>1. t' = t  BY <2>1 DEF BodySlot
    <3> SUFFICES ASSUME IsLink(slots[i]) PROVE t # 0 /\ layouts'[i] = layouts'[t]
      BY <2>1, <3>1 DEF Linked
    <3>2. t # 0 => Body(slots, t)  BY BodySlotFirst
    <3>3. CASE i = at
      BY <1>3, <2>2, <2>3, <2>5, <2>6, <3>3
    <3>4. CASE i # at
      <4>1. i \in 1..(at - 1) /\ i \in DOMAIN slots  BY <1>1, <3>4
      <4>2. t # 0 /\ layouts[i] = layouts[t]
        BY <1>1, <4>1 DEF SaveInv, LinksInv, Linked
      <4>  QED  BY <2>5, <2>6, <3>2, <3>4, <4>1, <4>2
    <3>  QED  BY <3>3, <3>4
  <2>10. LinksInv'  BY <1>1, <2>1, <2>8, <2>9 DEF LinksInv
  <2>  QED
    BY <1>1, <2>1, <2>7, <2>10 DEF SaveInv, LayoutInv, WriteInv, Unwritten, Finished
<1>  QED  BY <1>2, <1>3

LEMMA WriteDirectoryInv == SaveInv /\ WriteDirectory => SaveInv'
<1> SUFFICES ASSUME SaveInv, WriteDirectory PROVE SaveInv'  OBVIOUS
<1> USE SlotTable
<1>1. stage = "links" /\ at = Len(slots) + 1  BY DEF WriteDirectory
<1>2. CASE Fail  BY <1>1, <1>2, FailInv
<1>3. CASE ~Fail
  <2>1. /\ stage' = "write" /\ at' = 1 /\ position' = BodyStart(Len(slots))
        /\ UNCHANGED <<headerValid, slots, layouts, total, written>>
    <3>1. /\ stage' = "write" /\ at' = 1 /\ position' = 128 + 4 + 12 * Len(slots)
          /\ UNCHANGED <<headerValid, slots, layouts, total, written>>
      BY <1>3, Zenon DEF WriteDirectory
    <3>  QED  BY <3>1, BodyStartAligned
  <2>2. SaveTypeOK'  BY <1>1, <2>1 DEF SaveInv, SaveTypeOK
  <2>3. LinksInv'
    <3>1. \A i \in DOMAIN slots : Linked(i)  BY <1>1 DEF SaveInv, LinksInv
    <3>  QED  BY <1>1, <2>1, <3>1, LinksKept DEF SaveInv, LinksInv
  <2>4. Continues(slots, layouts, 1, BodyStart(Len(slots)), Len(slots) + 1, total)
    BY <1>1 DEF SaveInv, LinksInv, Laid, LaidOut
  <2>5. written = <<>>  BY <1>1 DEF SaveInv, Unwritten
  <2>6. WriteInv'  BY <2>1, <2>4, <2>5 DEF WriteInv
  <2>  QED
    BY <2>1, <2>2, <2>3, <2>6 DEF SaveInv, LayoutInv, Unwritten, Finished
<1>  QED  BY <1>2, <1>3

LEMMA WriteSlotInv == SaveInv /\ WriteSlot => SaveInv'
<1> SUFFICES ASSUME SaveInv, WriteSlot PROVE SaveInv'  OBVIOUS
<1> USE SlotTable
<1> DEFINE slot == slots[at]
           end == BodyEnd(slot.value, position + TypeBase)
<1>1. stage = "write" /\ at \in DOMAIN slots /\ ~IsLink(slot) /\ slot \in Slot
  BY DEF WriteSlot
<1>2. /\ position % 4 = 0 /\ position >= BodyStart(Len(slots))
      /\ Continues(slots, layouts, at, position, Len(slots) + 1, total)
      /\ \A p \in DOMAIN written : p \in Nat /\ p < position
      /\ \A i \in 1..(at - 1) : Body(slots, i) =>
            /\ layouts[i].offset \in DOMAIN written
            /\ written[layouts[i].offset] = BodyRecord(slots[i])
  BY <1>1 DEF SaveInv, WriteInv
<1>3. /\ end = position + SizeOf(slot) /\ RoundUp(end, 4) = position + Stride(slot)
      /\ SizeOf(slot) \in Nat /\ SizeOf(slot) >= 8
      /\ Stride(slot) \in Nat /\ Stride(slot) >= SizeOf(slot)
      /\ (position + Stride(slot)) % 4 = 0
  BY <1>1, <1>2, SameSizeAnywhere DEF TypeBase
<1>4. end - position - TypeBase = SizeOf(slot) - TypeBase  BY <1>3 DEF TypeBase
<1>5. /\ written' = [p \in DOMAIN written \cup {position} |->
                       IF p = position THEN BodyRecord(slot) ELSE written[p]]
      /\ position' = position + Stride(slot)
      /\ at' = at + 1
      /\ UNCHANGED <<headerValid, slots, stage, layouts, total>>
  <2>1. BodyRecord(slot) = [type |-> SlotType(slot), data |-> slot.value.data,
                            length |-> end - position - TypeBase,
                            decoders |-> slot.value.decoders]
    BY <1>4, Zenon DEF BodyRecord
  <2>  HIDE DEF end
  <2>  QED  BY <1>3, <2>1, Zenon DEF WriteSlot, end
<1>  HIDE DEF end
<1>6. Body(slots, at) /\ layouts[at].offset = position
  <2>1. Body(slots, at) /\ at \in at..((Len(slots) + 1) - 1) /\ NoBodyIn(slots, at..(at - 1))
    BY <1>1 DEF Body, NoBodyIn
  <2>  QED  BY <1>2, <2>1 DEF Continues
<1>7. Continues(slots, layouts, at + 1, position + Stride(slot), Len(slots) + 1, total)
  <2>1. LaidOut(slots, layouts, Len(slots) + 1, total)
    BY <1>1 DEF SaveInv, LinksInv, Laid
  <2>  QED  BY <1>1, <1>6, <2>1 DEF LaidOut
<1>8. \A p \in DOMAIN written' : p \in Nat /\ p < position'
  <2>1. \A p \in DOMAIN written' : p = position \/ p \in DOMAIN written  BY <1>5
  <2>2. position < position' /\ position' \in Nat
    <3> DEFINE d == Stride(slot)
               z == SizeOf(slot)
    <3>1. d \in Nat /\ z \in Nat /\ z >= 8 /\ d >= z /\ position' = position + d  BY <1>3, <1>5
    <3>2. position \in Nat  OBVIOUS
    <3> HIDE DEF d, z
    <3>3. d > 0  BY <3>1
    <3>  QED  BY <3>1, <3>2, <3>3
  <2>3. \A p \in DOMAIN written : p \in Nat /\ p < position'  BY <1>2, <2>2
  <2>  QED  BY <2>1, <2>2, <2>3
<1>9. ASSUME NEW i \in 1..((at + 1) - 1), Body(slots, i)
      PROVE  /\ layouts[i].offset \in DOMAIN written'
             /\ written'[layouts[i].offset] = BodyRecord(slots[i])
  <2>1. CASE i = at  BY <1>5, <1>6, <2>1
  <2>2. CASE i # at
    <3>1. /\ layouts[i].offset \in DOMAIN written
          /\ written[layouts[i].offset] = BodyRecord(slots[i])
      BY <1>2, <1>9, <2>2
    <3>2. layouts[i].offset # position  BY <1>2, <3>1
    <3>  QED  BY <1>5, <3>1, <3>2
  <2>  QED  BY <2>1, <2>2
<1>10. WriteInv'
  <2>1. position' % 4 = 0 /\ position' >= BodyStart(Len(slots))  BY <1>2, <1>3, <1>5
  <2>  QED  BY <1>1, <1>5, <1>7, <1>8, <1>9, <2>1 DEF WriteInv
<1>11. SaveTypeOK'
  <2>0. Len(slots) \in Nat /\ at \in Nat /\ at >= 1 /\ at <= Len(slots) /\ position \in Nat
    BY <1>1
  <2>1. at' \in 1..(Len(slots) + 1) /\ position' \in Nat
    <3> DEFINE n == Len(slots)
               d == Stride(slot)
    <3>1. n \in Nat /\ d \in Nat /\ at <= n  BY <2>0, <1>3
    <3>2. at' = at + 1 /\ position' = position + d  BY <1>5
    <3> HIDE DEF n, d
    <3>3. at + 1 \in 1..(n + 1) /\ position + d \in Nat  BY <2>0, <3>1, NextSlot
    <3>  QED  BY <3>2, <3>3 DEF n
  <2>  QED  BY <1>1, <1>5, <2>1 DEF SaveInv, SaveTypeOK
<1>12. LinksInv'  BY <1>1, <1>5, LinksKept DEF SaveInv, LinksInv
<1>  QED
  BY <1>1, <1>5, <1>10, <1>11, <1>12 DEF SaveInv, LayoutInv, Unwritten, Finished

LEMMA FinishSaveInv == SaveInv /\ FinishSave => SaveInv'
<1> SUFFICES ASSUME SaveInv, FinishSave PROVE SaveInv'  OBVIOUS
<1> USE SlotTable
<1>1. SaveTypeOK'  BY DEF SaveInv, SaveTypeOK, FinishSave
<1>2. LinksInv'  BY LinksKept DEF SaveInv, LinksInv, FinishSave
<1>3. WriteInv'  BY DEF SaveInv, WriteInv, FinishSave
<1>  QED
  BY <1>1, <1>2, <1>3 DEF SaveInv, FinishSave, LayoutInv, Unwritten, Finished

-----------------------------------------------------------------------------
LEMMA SaveStepInv == SaveInv /\ SaveNext => SaveInv'
<1> SUFFICES ASSUME SaveInv, SaveNext PROVE SaveInv'  OBVIOUS
<1>1. CASE \E sig \in Sig, value \in Value : AddTag(sig, value)
  BY <1>1, AddedSlots, AddSlotInv, Zenon DEF AddTag
<1>2. CASE \E sig, target \in Sig : LinkTag(sig, target)
  BY <1>2, AddedSlots, AddSlotInv, Zenon DEF LinkTag
<1>3. CASE StartSave  BY <1>3, StartSaveInv
<1>4. CASE SkipLink  BY <1>4, SkipLinkInv
<1>5. CASE LayoutSlot  BY <1>5, LayoutSlotInv
<1>6. CASE LayoutDone  BY <1>6, LayoutDoneInv
<1>7. CASE ResolveLink  BY <1>7, ResolveLinkInv
<1>8. CASE WriteDirectory  BY <1>8, WriteDirectoryInv
<1>9. CASE WriteSlot  BY <1>9, WriteSlotInv
<1>10. CASE FinishSave  BY <1>10, FinishSaveInv
<1>  QED
  BY <1>1, <1>2, <1>3, <1>4, <1>5, <1>6, <1>7, <1>8, <1>9, <1>10, Zenon
  DEF SaveNext, SaveStep

(***************************************************************************)
(* The inductive invariant of the writer: what each pass has established    *)
(* when it reaches a slot, in any slot table.                               *)
(***************************************************************************)
THEOREM SaverInvariant == SaveSpec => []SaveInv
<1>1. SaveInv /\ [SaveNext]_saveVars => SaveInv'  BY SaveStepInv, SaveStutter
<1>  QED  BY SaveInitInv, <1>1, PTL DEF SaveSpec

\* What a finished save leaves behind, slot by slot.
LEMMA SavedSlots ==
    ASSUME SaveInv, stage = "saved"
    PROVE  /\ position = total /\ total \in Nat /\ total <= U32Max
           /\ BodyStart(Len(slots)) <= total
           /\ \A i \in DOMAIN slots :
                 LET j == IF IsLink(slots[i]) THEN BodySlot(slots[i].linked) ELSE i
                 IN  /\ Body(slots, j) /\ (IsLink(slots[i]) => slots[j].sig = slots[i].linked)
                     /\ Placed(slots, layouts, j, total)
                     /\ layouts[i] = layouts[j]
                     /\ layouts[i].offset \in DOMAIN written
                     /\ written[layouts[i].offset] = BodyRecord(slots[j])
<1> USE SlotTable
<1>1. at = Len(slots) + 1 /\ total \in Nat  BY DEF SaveInv, Finished, SaveTypeOK
<1>2. Laid /\ \A i \in DOMAIN slots : Linked(i)  BY DEF SaveInv, LinksInv
<1>3. position = total
  <2>1. Continues(slots, layouts, at, position, Len(slots) + 1, total)
    BY DEF SaveInv, WriteInv
  <2>2. NoBodyIn(slots, at..((Len(slots) + 1) - 1))  BY <1>1 DEF NoBodyIn
  <2>  QED  BY <2>1, <2>2 DEF Continues
<1>4. \A i : Body(slots, i) =>
        /\ Placed(slots, layouts, i, total)
        /\ layouts[i].offset \in DOMAIN written
        /\ written[layouts[i].offset] = BodyRecord(slots[i])
  <2>1. \A i : Body(slots, i) => i \in 1..(at - 1) /\ i \in 1..((Len(slots) + 1) - 1)
    BY <1>1 DEF Body
  <2>2. \A i \in 1..((Len(slots) + 1) - 1) :
           Body(slots, i) => Placed(slots, layouts, i, total)
    BY <1>2, Zenon DEF Laid, LaidOut
  <2>3. \A i \in 1..(at - 1) : Body(slots, i) =>
              /\ layouts[i].offset \in DOMAIN written
              /\ written[layouts[i].offset] = BodyRecord(slots[i])
    BY DEF SaveInv, WriteInv
  <2>  QED  BY <2>1, <2>2, <2>3, Zenon
<1>5. ASSUME NEW i \in DOMAIN slots
      PROVE  LET j == IF IsLink(slots[i]) THEN BodySlot(slots[i].linked) ELSE i
             IN  /\ Body(slots, j) /\ (IsLink(slots[i]) => slots[j].sig = slots[i].linked)
                 /\ layouts[i] = layouts[j]
  <2>1. CASE IsLink(slots[i])  BY <1>2, <2>1, BodySlotFirst DEF Linked
  <2>2. CASE ~IsLink(slots[i])  BY <2>2, Zenon DEF Body
  <2>  QED  BY <2>1, <2>2
<1>6. total <= U32Max /\ BodyStart(Len(slots)) <= total  BY <1>2 DEF Laid, LaidOut
<1>  QED  BY <1>1, <1>3, <1>4, <1>5, <1>6, Zenon

(***************************************************************************)
(* A saved directory leads every tag, and every link, to the body its value *)
(* was written as, with the size it has there (save_to_mem_in's two passes, *)
(* and the offsets between them, for every table and every size).           *)
(***************************************************************************)
THEOREM SavedDirectoryIsTrue == SaveSpec => []DirectoryLeadsToBodies
<1>1. SaveInv => DirectoryLeadsToBodies
  <2> SUFFICES ASSUME SaveInv, stage = "saved", NEW i \in DOMAIN slots
               PROVE  LET source == IF IsLink(slots[i]) THEN slots[BodySlot(slots[i].linked)]
                                    ELSE slots[i]
                      IN  /\ layouts[i].offset \in DOMAIN written
                          /\ LET body == written[layouts[i].offset]
                             IN  /\ body.type = SlotType(source)
                                 /\ body.data = source.value.data
                                 /\ body.length + TypeBase = layouts[i].size
    BY Zenon DEF DirectoryLeadsToBodies
  <2> DEFINE j == IF IsLink(slots[i]) THEN BodySlot(slots[i].linked) ELSE i
  <2>1. /\ Body(slots, j) /\ Placed(slots, layouts, j, total)
        /\ layouts[i] = layouts[j]
        /\ layouts[i].offset \in DOMAIN written
        /\ written[layouts[i].offset] = BodyRecord(slots[j])
    BY SavedSlots, Zenon
  <2>2. slots[j] \in Slot /\ ~IsLink(slots[j]) /\ 0 \in Nat /\ 0 % 4 = 0
    BY <2>1, SlotTable DEF Body
  <2>3. SizeOf(slots[j]) \in Nat  BY <2>2, SameSizeAnywhere
  <2>4. (SizeOf(slots[j]) - TypeBase) + TypeBase = layouts[i].size
    BY <2>1, <2>3 DEF Placed, TypeBase
  <2>5. slots[j] = IF IsLink(slots[i]) THEN slots[BodySlot(slots[i].linked)] ELSE slots[i]
    BY Zenon
  <2>  HIDE DEF j
  <2>  QED  BY <2>1, <2>4, <2>5 DEF BodyRecord
<1>  QED  BY <1>1, SaverInvariant, PTL

(***************************************************************************)
(* The assertion at the end of save_to_mem_in never fires: the pass that    *)
(* counts and the pass that writes end at the same byte.                    *)
(***************************************************************************)
THEOREM PassesAlwaysAgree == SaveSpec => []PassesAgree
<1>1. SaveInv => PassesAgree  BY SavedSlots DEF PassesAgree
<1>  QED  BY <1>1, SaverInvariant, PTL

-----------------------------------------------------------------------------
(* Save and reopen. *)

\* Why a saved profile may be refused.
Refusable == ~headerValid \/ Len(slots) > MaxTableTag \/ HasDuplicate(slots)

\* The entries parsed so far are the first slots, each over its own range.
Parsed ==
    /\ Len(entries) = seen
    /\ seen <= Len(slots)
    /\ \A i \in 1..seen :
          entries[i].sig = slots[i].sig /\ SameRange(entries[i], layouts[i])

Reopened ==
    phase # "closed" =>
        /\ stage = "saved"
        /\ file = SavedFile
        /\ IF phase = "failed" THEN Refusable ELSE Parsed /\ headerValid /\ Len(slots) <= MaxTableTag
        /\ phase = "open" => seen = Len(slots)

LifeInv == SaveInv /\ ProfInv /\ Reopened

-----------------------------------------------------------------------------
\* The bytes a finished save returns are a file, its directory the slots'.
LEMMA SavedTable ==
    ASSUME SaveInv, stage = "saved"
    PROVE  /\ SavedFile.headerOk = headerValid
           /\ SavedFile.size = total /\ SavedFile.len = total
           /\ SavedFile.count = Len(slots)
           /\ SavedFile.blocks = written
           /\ DOMAIN SavedFile.table = 1..Len(slots)
           /\ \A i \in 1..Len(slots) :
                 SavedFile.table[i] = [sig |-> slots[i].sig, offset |-> layouts[i].offset,
                                       size |-> layouts[i].size]
           /\ BodyStart(Len(slots)) <= total /\ total \in Nat /\ total <= U32Max
<1>1. position = total /\ total \in Nat /\ total <= U32Max /\ BodyStart(Len(slots)) <= total
  BY SavedSlots
<1>2. DOMAIN slots = 1..Len(slots)  BY SlotTable
<1>  QED  BY <1>1, <1>2 DEF SavedFile

\* Where a saved slot's bytes are.
LEMMA SavedRanges ==
    ASSUME SaveInv, stage = "saved", NEW i \in DOMAIN slots
    PROVE  /\ layouts[i].offset \in Nat /\ layouts[i].offset > 0
           /\ layouts[i].size \in Nat /\ layouts[i].size >= 8
           /\ layouts[i].offset + layouts[i].size <= total
           /\ slots[i].sig \in Sig
<1> DEFINE j == IF IsLink(slots[i]) THEN BodySlot(slots[i].linked) ELSE i
<1>1. Body(slots, j) /\ Placed(slots, layouts, j, total) /\ layouts[i] = layouts[j]
  BY SavedSlots, Zenon
<1>  HIDE DEF j
<1>2. slots \in Seq(Slot) /\ BodyStart(Len(slots)) \in Nat /\ Len(slots) \in Nat  BY SlotTable
<1>3. slots[j] \in Slot /\ ~IsLink(slots[j]) /\ 0 \in Nat /\ 0 % 4 = 0
  BY <1>1, <1>2 DEF Body
<1>4. /\ SizeOf(slots[j]) \in Nat /\ SizeOf(slots[j]) >= 8
      /\ Stride(slots[j]) \in Nat /\ Stride(slots[j]) >= SizeOf(slots[j])
  BY <1>3, SameSizeAnywhere DEF TypeBase
<1>5. /\ layouts[j].offset \in Nat /\ layouts[j].size = SizeOf(slots[j])
      /\ BodyStart(Len(slots)) <= layouts[j].offset
      /\ layouts[j].offset + Stride(slots[j]) <= total
  BY <1>1 DEF Placed, Extent
<1>6. BodyStart(Len(slots)) > 0  BY <1>2, BodyStartAligned
<1>7. total \in Nat  BY SavedSlots
<1>8. slots[i].sig \in Sig
  <2>1. slots[i] \in Slot  BY <1>2
  <2>  QED  BY <2>1 DEF Slot
<1>  QED  BY <1>1, <1>2, <1>4, <1>5, <1>6, <1>7, <1>8

LEMMA SavedIsFile ==
    ASSUME SaveInv, stage = "saved"
    PROVE  IsFile(SavedFile)
<1>1. /\ headerValid \in BOOLEAN /\ Len(slots) \in Nat /\ DOMAIN slots = 1..Len(slots)
      /\ BodyStart(Len(slots)) = 128 + 4 + 12 * Len(slots)
  BY SlotTable, BodyStartAligned DEF SaveInv, SaveTypeOK
<1>2. U32Max \in Int  BY FileAssumption DEF U32Max
<1>3. ASSUME NEW i \in 1..Len(slots)  PROVE SavedFile.table[i] \in RawEntry
  <2>1. /\ layouts[i].offset \in 0..U32Max /\ layouts[i].size \in 0..U32Max
        /\ slots[i].sig \in Sig
    BY <1>1, <1>2, SavedRanges, SavedTable
  <2>2. SavedFile.table[i] = [sig |-> slots[i].sig, offset |-> layouts[i].offset,
                              size |-> layouts[i].size]
    BY SavedTable, Zenon
  <2>  QED  BY <2>1, <2>2 DEF RawEntry
<1>4. SavedFile.table \in Seq(RawEntry)
  <2> DEFINE tab == [i \in DOMAIN slots |-> [sig |-> slots[i].sig, offset |-> layouts[i].offset,
                                             size |-> layouts[i].size]]
  <2>1. SavedFile.table = tab  BY DEF SavedFile
  <2>2. tab = [i \in 1..Len(slots) |-> tab[i]]  BY <1>1
  <2>3. \A i \in 1..Len(slots) : tab[i] \in RawEntry  BY <1>3, <2>1
  <2>  HIDE DEF tab
  <2>4. tab \in [1..Len(slots) -> RawEntry]  BY <2>2, <2>3
  <2>  QED  BY <1>1, <2>1, <2>4
<1>5. SavedFile.count \in 0..U32Max /\ SavedFile.size \in 0..U32Max /\ SavedFile.len \in Nat
  BY <1>1, <1>2, SavedTable
<1>  QED  BY <1>1, <1>4, <1>5, SavedTable DEF IsFile

\* No entry the writer makes is one the reader drops.
LEMMA SavedKept ==
    ASSUME SaveInv, stage = "saved", NEW i \in 1..Len(slots)
    PROVE  ~Dropped(SavedFile, SavedFile.table[i])
<1> DEFINE e == SavedFile.table[i]
<1>1. i \in DOMAIN slots  BY SlotTable
<1>2. /\ e.offset \in Nat /\ e.offset > 0 /\ e.size \in Nat /\ e.size > 0
      /\ e.offset + e.size <= total
  <2>1. e = [sig |-> slots[i].sig, offset |-> layouts[i].offset, size |-> layouts[i].size]
    BY SavedTable, Zenon
  <2>2. e.offset = layouts[i].offset /\ e.size = layouts[i].size  BY <2>1
  <2>  HIDE DEF e
  <2>  QED  BY <1>1, <2>2, SavedRanges
<1>3. /\ SavedFile.size = total /\ SavedFile.len = total /\ total \in Nat /\ total <= U32Max
  BY SavedTable
<1>4. U32 \in Nat /\ U32Max = U32 - 1  BY FileAssumption DEF U32Max
<1>5. HeaderClamped(SavedFile) = total
  BY <1>3, <1>4 DEF HeaderClamped, LesserOf
<1>6. WrappingAdd(e.offset, e.size) = e.offset + e.size
  BY <1>2, <1>3, <1>4 DEF WrappingAdd
<1>  HIDE DEF e
<1>  QED  BY <1>2, <1>3, <1>5, <1>6 DEF Dropped, e

-----------------------------------------------------------------------------
LEMMA LifeInitInv == LifeInit => LifeInv
<1> SUFFICES ASSUME LifeInit PROVE LifeInv  OBVIOUS
<1>1. SaveInv  BY SaveInitInv DEF LifeInit
<1>2. ProfInv  BY ProfInitInv DEF LifeInit
<1>3. Reopened  BY DEF LifeInit, ProfileInit, Init, Reopened
<1>  QED  BY <1>1, <1>2, <1>3 DEF LifeInv

\* A finished save is never touched again.
LEMMA SavedIsFinal == SaveInv /\ stage = "saved" => ~SaveNext
<1> SUFFICES ASSUME SaveInv, stage = "saved", SaveNext PROVE FALSE  OBVIOUS
<1>1. \A slot : ~AddSlot(slot)  BY DEF AddSlot
<1>2. ~SaveStep
  BY Zenon DEF SaveStep, StartSave, SkipLink, LayoutSlot, LayoutDone, ResolveLink,
               WriteDirectory, WriteSlot, FinishSave
<1>  QED  BY <1>1, <1>2, Zenon DEF SaveNext, AddTag, LinkTag

LEMMA BuildInv == LifeInv /\ BuildAndSave => LifeInv'
<1> SUFFICES ASSUME LifeInv, BuildAndSave PROVE LifeInv'  OBVIOUS
<1>1. SaveInv'  BY SaveStepInv DEF LifeInv, BuildAndSave
<1>2. ProfInv'  BY ProfStutter DEF LifeInv, BuildAndSave
<1>3. phase = "closed"
  BY SavedIsFinal DEF LifeInv, BuildAndSave, Reopened
<1>4. Reopened'  BY <1>3 DEF Reopened, BuildAndSave, vars, dirVars
<1>  QED  BY <1>1, <1>2, <1>4 DEF LifeInv

\* The writer's side stays as it is through everything the reader does.
LEMMA WriterFrame ==
    ASSUME LifeInv, UNCHANGED saveVars
    PROVE  SaveInv' /\ SavedFile' = SavedFile /\ (Refusable => Refusable')
<1>1. SaveInv'  BY SaveStutter DEF LifeInv
<1>  QED  BY <1>1 DEF SavedFile, Refusable, saveVars

LEMMA ReopenInv == LifeInv /\ Reopen => LifeInv'
<1> SUFFICES ASSUME LifeInv, Reopen PROVE LifeInv'  OBVIOUS
<1>1. stage = "saved" /\ Open(SavedFile) /\ UNCHANGED <<cache, request, reply>>
      /\ UNCHANGED saveVars
  BY DEF Reopen
<1>2. SaveInv' /\ SavedFile' = SavedFile /\ (Refusable => Refusable')
  BY <1>1, WriterFrame
<1>3. ProfInv'
  <2>1. IsFile(SavedFile)  BY <1>1, SavedIsFile DEF LifeInv
  <2>  QED  BY <1>1, <2>1, OpenFileInv DEF LifeInv
<1>4. /\ SavedFile.headerOk = headerValid /\ SavedFile.count = Len(slots)
      /\ DirStart + 4 <= SavedFile.len
  <2>1. BodyStart(Len(slots)) <= total /\ total \in Nat /\ Len(slots) \in Nat
    BY <1>1, SavedTable, SlotTable DEF LifeInv
  <2>2. 132 <= BodyStart(Len(slots)) /\ BodyStart(Len(slots)) \in Nat
    BY <2>1, BodyStartAligned
  <2>  QED  BY <1>1, <2>1, <2>2, SavedTable DEF LifeInv, DirStart
<1>5. phase' = "failed" => Refusable
  <2>1. Len(slots) \in Nat /\ MaxTableTag \in Nat
    BY SlotTable, DirectoryAssumption DEF LifeInv
  <2>2. phase' = "failed" => ~headerValid \/ ~(Len(slots) <= MaxTableTag)
    BY <1>1, <1>4, Zenon DEF Open
  <2>  QED  BY <2>1, <2>2 DEF Refusable
<1>6. Parsed'
  <2>1. seen' = 0 /\ entries' = <<>>  BY <1>1 DEF Open
  <2>2. slots' = slots /\ Len(slots) \in Nat  BY <1>1, SlotTable DEF LifeInv, saveVars
  <2>  QED  BY <2>1, <2>2 DEF Parsed
<1>7. phase' # "open" /\ file' = SavedFile /\ stage' = "saved"
  BY <1>1 DEF Open, saveVars
<1>8. phase' # "failed" => headerValid' /\ Len(slots') <= MaxTableTag
  <2>1. phase' # "failed" => headerValid /\ Len(slots) <= MaxTableTag  BY <1>1, <1>4, Zenon DEF Open
  <2>  QED  BY <1>1, <2>1 DEF saveVars
<1>9. Reopened'  BY <1>2, <1>5, <1>6, <1>7, <1>8 DEF Reopened
<1>  QED  BY <1>2, <1>3, <1>9 DEF LifeInv

LEMMA ParseSavedInv == LifeInv /\ ParseSaved => LifeInv'
<1> SUFFICES ASSUME LifeInv, ParseSaved PROVE LifeInv'  OBVIOUS
<1>1. ParseStep /\ UNCHANGED saveVars /\ UNCHANGED <<cache, request, reply>>
  BY DEF ParseSaved
<1>2. SaveInv' /\ SavedFile' = SavedFile /\ (Refusable => Refusable')
  BY <1>1, WriterFrame
<1>3. ProfInv'  BY <1>1, ParseFileInv DEF LifeInv
<1>4. phase = "parsing"  BY <1>1 DEF ParseStep, ParseEntry, Truncated, FinishDirectory
<1>5. stage = "saved" /\ file = SavedFile /\ Parsed /\ headerValid /\ Len(slots) <= MaxTableTag
  BY <1>4 DEF LifeInv, Reopened
<1>6. /\ slots' = slots /\ layouts' = layouts /\ stage' = stage /\ headerValid' = headerValid
      /\ Len(slots) \in Nat /\ DOMAIN slots = 1..Len(slots)
  BY <1>1, SlotTable DEF LifeInv, saveVars
<1>7. /\ entries \in Seq(TagEntry) /\ seen \in Nat /\ seen <= Len(slots)
      /\ file.count = Len(slots)
  BY <1>5, SavedTable DEF LifeInv, ProfInv, DirInv, TypeOK, Parsed
<1>8. CASE ParseEntry
  <2> DEFINE e == file.table[seen + 1]
             new == Accepted(entries, e)
  <2>1. /\ seen < Len(slots) /\ seen' = seen + 1 /\ file' = file /\ phase' = "parsing"
        /\ entries' = IF Dropped(file, e) THEN entries ELSE Append(entries, new)
    BY <1>7, <1>8 DEF ParseEntry
  <2>2. seen + 1 \in 1..Len(slots) /\ seen + 1 \in DOMAIN slots  BY <1>6, <1>7, <2>1
  <2>3. ~Dropped(file, e)  BY <1>5, <2>2, SavedKept DEF LifeInv
  <2>4. e.sig = slots[seen + 1].sig /\ SameRange(e, layouts[seen + 1])
    <3>1. SavedFile.table[seen + 1] =
            [sig |-> slots[seen + 1].sig, offset |-> layouts[seen + 1].offset,
             size |-> layouts[seen + 1].size]
      BY <1>5, <2>2, SavedTable, Zenon DEF LifeInv
    <3>  QED  BY <1>5, <3>1 DEF SameRange
  <2>5. new.sig = slots[seen + 1].sig /\ SameRange(new, layouts[seen + 1])
    BY <2>4 DEF Accepted, SameRange
  <2>  HIDE DEF e, new
  <2>6. entries' = Append(entries, new)  BY <2>1, <2>3
  <2>7. /\ Len(entries') = seen + 1 /\ entries'[seen + 1] = new
        /\ \A i \in 1..seen : entries'[i] = entries[i]
    BY <1>5, <1>7, <2>6 DEF Parsed
  <2>8. Parsed'
    <3>1. \A i \in 1..(seen + 1) : i \in 1..seen \/ i = seen + 1  BY <1>7
    <3>2. \A i \in 1..(seen + 1) :
             entries'[i].sig = slots[i].sig /\ SameRange(entries'[i], layouts[i])
      BY <1>5, <2>5, <2>7, <3>1 DEF Parsed
    <3>  QED  BY <1>6, <1>7, <2>1, <2>7, <3>2 DEF Parsed
  <2>9. Reopened'  BY <1>2, <1>5, <1>6, <2>1, <2>8 DEF Reopened
  <2>  QED  BY <1>2, <1>3, <2>9 DEF LifeInv
<1>9. CASE Truncated
  <2>1. seen < Len(slots) /\ EntryAt(seen + 2) > file.len  BY <1>7, <1>9 DEF Truncated
  <2>2. file.len = total /\ BodyStart(Len(slots)) <= total /\ total \in Nat
    BY <1>5, SavedTable DEF LifeInv
  <2>3. EntryAt(seen + 2) = 132 + 12 * (seen + 1)  BY <1>7 DEF EntryAt, DirStart
  <2>4. BodyStart(Len(slots)) = 132 + 12 * Len(slots)  BY <1>6, BodyStartAligned
  <2>  QED  BY <1>6, <1>7, <2>1, <2>2, <2>3, <2>4
<1>10. CASE FinishDirectory
  <2>1. /\ seen = Len(slots) /\ UNCHANGED <<file, seen, entries>>
        /\ phase' = IF HasDuplicate(entries) THEN "failed" ELSE "open"
    BY <1>7, <1>10 DEF FinishDirectory
  <2>2. Parsed'  BY <1>5, <1>6, <2>1 DEF Parsed
  <2>3. HasDuplicate(entries) => Refusable
    <3>1. DOMAIN entries = DOMAIN slots /\ \A i \in DOMAIN slots : entries[i].sig = slots[i].sig
      BY <1>5, <1>6, <1>7, <2>1 DEF Parsed
    <3>  QED  BY <3>1 DEF HasDuplicate, Refusable
  <2>4. Reopened'  BY <1>2, <1>5, <1>6, <2>1, <2>2, <2>3 DEF Reopened
  <2>  QED  BY <1>2, <1>3, <2>4 DEF LifeInv
<1>  QED  BY <1>1, <1>8, <1>9, <1>10 DEF ParseStep

\* Reads leave the directory and the writer alone.
LEMMA ReadFrame ==
    ASSUME LifeInv, UNCHANGED saveVars, UNCHANGED dirVars
    PROVE  SaveInv' /\ Reopened'
<1>1. SaveInv' /\ SavedFile' = SavedFile /\ (Refusable => Refusable')
  BY WriterFrame
<1>  QED  BY <1>1 DEF LifeInv, Reopened, Parsed, dirVars, saveVars

LEMMA ReadsInv == LifeInv /\ (StartRead \/ ReadSaved) => LifeInv'
<1> SUFFICES ASSUME LifeInv, StartRead \/ ReadSaved PROVE LifeInv'  OBVIOUS
<1>1. UNCHANGED saveVars /\ UNCHANGED dirVars
  BY DEF StartRead, ReadSaved, Call, ReadStep, FollowLink, ReturnAbsent, ReturnCached,
         ReturnDecoded, ReturnTrueType, ReturnRaw
<1>2. ProfInv'
  BY CallInv, ReadStepInv DEF LifeInv, StartRead, ReadSaved
<1>  QED  BY <1>1, <1>2, ReadFrame DEF LifeInv

(***************************************************************************)
(* The inductive invariant of a life: the writer's, the reader's, and that  *)
(* the reader parses exactly what the writer laid out.                      *)
(***************************************************************************)
THEOREM LifeInvariant == LifeSpec => []LifeInv
<1>1. LifeInv /\ [LifeNext]_lifeVars => LifeInv'
  <2> SUFFICES ASSUME LifeInv, [LifeNext]_lifeVars PROVE LifeInv'  OBVIOUS
  <2>1. CASE UNCHANGED lifeVars
    <3>1. UNCHANGED saveVars /\ UNCHANGED vars  BY <2>1 DEF lifeVars
    <3>2. UNCHANGED dirVars  BY <3>1 DEF vars
    <3>3. ProfInv'  BY <3>1, ProfStutter DEF LifeInv
    <3>  QED  BY <3>1, <3>2, <3>3, ReadFrame DEF LifeInv
  <2>  QED  BY <2>1, BuildInv, ReopenInv, ParseSavedInv, ReadsInv DEF LifeNext
<1>  QED  BY LifeInitInv, <1>1, PTL DEF LifeSpec

-----------------------------------------------------------------------------
(***************************************************************************)
(* For every slot table: what save_to_mem_in returns is refused for its     *)
(* header, its number of slots or a signature used twice and for nothing    *)
(* else, and opens with every tag in place.                                 *)
(***************************************************************************)
THEOREM SavedProfilesAlwaysOpen == LifeSpec => []SavedProfilesOpen
<1>1. LifeInv => SavedProfilesOpen
  <2> SUFFICES ASSUME LifeInv, stage = "saved"
               PROVE  SavedProfilesOpen
    BY DEF SavedProfilesOpen
  <2> DEFINE openable == /\ headerValid
                         /\ Len(slots) <= MaxTableTag
                         /\ \A i, j \in DOMAIN slots : slots[i].sig = slots[j].sig => i = j
  <2>1. Len(slots) \in Nat /\ MaxTableTag \in Nat /\ DOMAIN slots = 1..Len(slots)
    BY SlotTable, DirectoryAssumption DEF LifeInv
  <2>2. phase = "failed" => ~openable
    <3>1. phase = "failed" => Refusable  BY DEF LifeInv, Reopened
    <3>  QED  BY <2>1, <3>1 DEF Refusable, HasDuplicate
  <2>3. ASSUME phase = "open"
        PROVE  /\ openable
               /\ [i \in DOMAIN slots |-> slots[i].sig] = [i \in DOMAIN entries |-> entries[i].sig]
    <3>1. Parsed /\ seen = Len(slots) /\ headerValid /\ Len(slots) <= MaxTableTag
          /\ entries \in Seq(TagEntry) /\ ~HasDuplicate(entries)
      BY <2>3 DEF LifeInv, Reopened, ProfInv, DirInv, TypeOK, NoTwins
    <3>2. DOMAIN entries = DOMAIN slots /\ \A i \in DOMAIN slots : entries[i].sig = slots[i].sig
      BY <2>1, <3>1 DEF Parsed
    <3>3. \A i, j \in DOMAIN slots : slots[i].sig = slots[j].sig => i = j
      BY <3>1, <3>2 DEF HasDuplicate
    <3>  QED  BY <3>1, <3>2, <3>3
  <2>  QED  BY <2>2, <2>3 DEF SavedProfilesOpen
<1>  QED  BY <1>1, LifeInvariant, PTL

-----------------------------------------------------------------------------
\* The slot whose body the tag in slot i is read from.
Source(i) == IF IsLink(slots[i]) THEN BodySlot(slots[i].linked) ELSE i

\* The opened profile's slots have one signature each, those of its entries.
LEMMA OpenedSlots ==
    ASSUME LifeInv, phase = "open"
    PROVE  /\ stage = "saved" /\ file = SavedFile
           /\ slots \in Seq(Slot) /\ Len(slots) \in Nat /\ DOMAIN slots = 1..Len(slots)
           /\ entries \in Seq(TagEntry) /\ DOMAIN entries = DOMAIN slots
           /\ \A i \in DOMAIN slots :
                 entries[i].sig = slots[i].sig /\ SameRange(entries[i], layouts[i])
           /\ ~HasDuplicate(slots)
<1>1. /\ stage = "saved" /\ file = SavedFile /\ Parsed /\ seen = Len(slots)
      /\ entries \in Seq(TagEntry) /\ ~HasDuplicate(entries)
  BY DEF LifeInv, Reopened, ProfInv, DirInv, TypeOK, NoTwins
<1>2. slots \in Seq(Slot) /\ Len(slots) \in Nat /\ DOMAIN slots = 1..Len(slots)
  BY SlotTable DEF LifeInv
<1>3. DOMAIN entries = 1..Len(entries)  BY <1>1
<1>4. /\ DOMAIN entries = DOMAIN slots
      /\ \A i \in DOMAIN slots :
            entries[i].sig = slots[i].sig /\ SameRange(entries[i], layouts[i])
  BY <1>1, <1>2, <1>3 DEF Parsed
<1>  QED  BY <1>1, <1>2, <1>4 DEF HasDuplicate

\* The body behind slot i, in memory and in the file.
LEMMA SourceBody ==
    ASSUME LifeInv, phase = "open", NEW i \in DOMAIN slots
    PROVE  /\ Body(slots, Source(i)) /\ Placed(slots, layouts, Source(i), total)
           /\ entries[i].offset = layouts[Source(i)].offset
           /\ entries[i].size = SizeOf(slots[Source(i)])
           /\ file.blocks[entries[i].offset] = BodyRecord(slots[Source(i)])
           /\ entries[i].offset + 8 <= file.len
           /\ entries[i].size \in Nat /\ entries[i].size >= 8
<1>1. stage = "saved" /\ file = SavedFile /\ SameRange(entries[i], layouts[i])
  BY OpenedSlots
<1>2. /\ Body(slots, Source(i)) /\ Placed(slots, layouts, Source(i), total)
      /\ layouts[i] = layouts[Source(i)]
      /\ written[layouts[i].offset] = BodyRecord(slots[Source(i)])
  BY <1>1, SavedSlots, Zenon DEF LifeInv, Source
<1>3. /\ layouts[i].offset \in Nat /\ layouts[i].size \in Nat /\ layouts[i].size >= 8
      /\ layouts[i].offset + layouts[i].size <= total
  BY <1>1, SavedRanges DEF LifeInv
<1>4. file.blocks = written /\ file.len = total /\ total \in Nat
  BY <1>1, SavedTable DEF LifeInv
<1>5. entries[i].offset = layouts[i].offset /\ entries[i].size = layouts[i].size
  BY <1>1 DEF SameRange
<1>6. layouts[Source(i)].size = SizeOf(slots[Source(i)])  BY <1>2 DEF Placed
<1>7. layouts[i].offset + 8 <= total  BY <1>3, <1>4
<1>  HIDE DEF Source
<1>  QED  BY <1>2, <1>3, <1>4, <1>5, <1>6, <1>7

\* In memory the tag in slot i is answered from the same body: the search over
\* the slots takes the one link step the writer resolved.
LEMMA MemorySource ==
    ASSUME LifeInv, phase = "open", NEW i \in DOMAIN slots, MemSlot(slots[i].sig) # 0
    PROVE  MemSlot(slots[i].sig) = Source(i)
<1> DEFINE L == Len(slots)
           C == Chase(slots)
           j == Source(i)
           sig == slots[i].sig
<1>1. /\ slots \in Seq(Slot) /\ ~HasDuplicate(slots) /\ L \in Nat /\ DOMAIN slots = 1..L
      /\ stage = "saved"
  BY OpenedSlots
<1>2. TagEntryOf(slots, sig) = i /\ i \in 1..L  BY <1>1, TagEntryOfUnique
<1>3. /\ Body(slots, j) /\ j \in 1..L /\ TagEntryOf(slots, slots[j].sig) = j
      /\ slots[j].linked = NoLink
  <2>1. Body(slots, j)  BY SourceBody
  <2>  HIDE DEF j
  <2>2. j \in DOMAIN slots  BY <2>1 DEF Body
  <2>  QED  BY <1>1, <2>1, <2>2, TagEntryOfUnique DEF Body, IsLink
<1>4. IsLink(slots[i]) => slots[j].sig = slots[i].linked
  BY <1>1, SavedSlots, Zenon DEF Source, LifeInv
<1>5. L - 1 \in 0..L /\ L \in 0..L /\ L # 0 /\ i \in 0..L /\ j \in 0..L /\ i # 0 /\ j # 0
  <2>  HIDE DEF L, j
  <2>  QED  BY <1>1, <1>2, <1>3
<1>6. C[L - 1][j] = j
  BY <1>1, <1>3, <1>5, ChaseStep
<1>7. C[L][i] = j
  <2>1. CASE IsLink(slots[i])
    <3>1. C[L][i] = C[L - 1][TagEntryOf(slots, slots[i].linked)]
      BY <1>1, <1>5, <2>1, ChaseStep DEF IsLink
    <3>2. TagEntryOf(slots, slots[i].linked) = j  BY <1>3, <1>4, <2>1
    <3>  QED  BY <1>6, <3>1, <3>2
  <2>2. CASE ~IsLink(slots[i])
    <3>1. j = i  BY <2>2 DEF Source
    <3>2. C[L][i] = i  BY <1>1, <1>5, <2>2, ChaseStep DEF IsLink
    <3>  QED  BY <3>1, <3>2
  <2>  QED  BY <2>1, <2>2
<1>8. SearchTag(slots, sig) = j  BY <1>2, <1>7 DEF SearchTag
<1>9. LastBody(slots[j].sig) = j
  <2>1. {k \in DOMAIN slots : slots[k].sig = slots[j].sig /\ ~IsLink(slots[k])} = {j}
    <3> HIDE DEF j
    <3>  QED  BY <1>1, <1>3 DEF HasDuplicate, Body
  <2>2. Max({j}) = j
    <3>1. {j} \in SUBSET (1..L) /\ {j} # {}  BY <1>3
    <3> HIDE DEF j, L
    <3>  QED  BY <1>1, <3>1, LastIndex
  <2>  HIDE DEF j
  <2>  QED  BY <2>1, <2>2 DEF LastBody
<1>  HIDE DEF j, sig
<1>10. MemSlot(sig) = LastBody(slots[j].sig) \/ MemSlot(sig) = 0
  BY <1>8, Zenon DEF MemSlot
<1>  QED  BY <1>9, <1>10 DEF sig, j

\* A tag memory answers is an entry of the file, backed by the same body.
LEMMA MemoryEntry ==
    ASSUME LifeInv, phase = "open", NEW sig, MemSlot(sig) # 0
    PROVE  LET own == TagEntryOf(entries, sig)
           IN  /\ own # 0 /\ own \in DOMAIN slots /\ slots[own].sig = sig
               /\ MemSlot(sig) = Source(own)
<1> DEFINE own == TagEntryOf(slots, sig)
<1>1. slots \in Seq(Slot) /\ entries \in Seq(TagEntry) /\ ~HasDuplicate(slots)
      /\ DOMAIN entries = DOMAIN slots /\ Len(slots) \in Nat
      /\ \A i \in DOMAIN slots : entries[i].sig = slots[i].sig
  BY OpenedSlots
<1>2. own # 0
  <2> SUFFICES ASSUME own = 0 PROVE FALSE  OBVIOUS
  <2>1. SearchTag(slots, sig) = 0
    <3>1. Chase(slots)[Len(slots)][0] = 0
      <4>1. Len(slots) \in 0..Len(slots) /\ 0 \in 0..Len(slots)  BY <1>1
      <4>  QED  BY <1>1, <4>1, ChaseStep
    <3>  QED  BY <3>1 DEF SearchTag
  <2>  QED  BY <2>1 DEF MemSlot
<1>3. own \in DOMAIN slots /\ slots[own].sig = sig  BY <1>1, <1>2, TagEntryOfFirst
<1>4. TagEntryOf(entries, sig) = own
  <2>1. {i \in DOMAIN entries : entries[i].sig = sig} = {i \in DOMAIN slots : slots[i].sig = sig}
    BY <1>1
  <2>  QED  BY <2>1 DEF TagEntryOf
<1>  HIDE DEF own
<1>  QED  BY <1>2, <1>3, <1>4, MemorySource

-----------------------------------------------------------------------------
\* A reply, when there is one, answers a read of the opened profile.
LEMMA ReplyAnswers ==
    ASSUME LifeInv, NEW op, BothAnswer(op)
    PROVE  LET own == TagEntryOf(entries, reply.sig)
               source == slots[MemSlot(reply.sig)]
           IN  /\ phase = "open" /\ reply.op = op /\ reply.sig \in Sig /\ own # 0
               /\ Answers(op, reply.ctx, reply.sig, reply.result)
               /\ source \in Slot /\ ~IsLink(source) /\ Writable(source)
               /\ entries[own].size = SizeOf(source)
               /\ file.blocks[entries[own].offset] = BodyRecord(source)
               /\ entries[own].offset + 8 <= file.len
               /\ entries[own].size \in Nat /\ entries[own].size >= 8
<1> DEFINE own == TagEntryOf(entries, reply.sig)
           m == MemSlot(reply.sig)
<1>1. /\ phase = "open" /\ reply.op = op /\ reply.sig \in Sig /\ m # 0
      /\ Answers(op, reply.ctx, reply.sig, reply.result)
  BY DEF BothAnswer, LifeInv, ProfInv, ReplyInv
<1>2. own # 0 /\ own \in DOMAIN slots /\ m = Source(own)
  BY <1>1, MemoryEntry
<1>  HIDE DEF own, m
<1>3. /\ Body(slots, m) /\ Placed(slots, layouts, m, total)
      /\ entries[own].size = SizeOf(slots[m])
      /\ file.blocks[entries[own].offset] = BodyRecord(slots[m])
      /\ entries[own].offset + 8 <= file.len
      /\ entries[own].size \in Nat /\ entries[own].size >= 8
  BY <1>1, <1>2, SourceBody
<1>4. slots[m] \in Slot /\ ~IsLink(slots[m])  BY <1>1, <1>3, OpenedSlots DEF Body
<1>5. Writable(slots[m])  BY <1>3 DEF Placed
<1>  QED  BY <1>1, <1>2, <1>3, <1>4, <1>5 DEF own, m

(***************************************************************************)
(* For every slot table and whatever was read before: a successful read of  *)
(* the reopened file returns the value memory has for the tag.              *)
(***************************************************************************)
THEOREM SavingNeverChangesValues == LifeSpec => []NeverSilentlyDifferent
<1>1. LifeInv => NeverSilentlyDifferent
  <2> SUFFICES ASSUME LifeInv, BothAnswer("read_tag_in"), reply.result.ok
               PROVE  reply.result.value.data = slots[MemSlot(reply.sig)].value.data
    BY DEF NeverSilentlyDifferent
  <2> DEFINE own == TagEntryOf(entries, reply.sig)
             source == slots[MemSlot(reply.sig)]
             v == reply.result.value
  <2>1. /\ own # 0 /\ Answers("read_tag_in", reply.ctx, reply.sig, reply.result)
        /\ file.blocks[entries[own].offset] = BodyRecord(source)
    BY ReplyAnswers
  <2>  HIDE DEF own, source
  <2>2. PICK c : reply.result = ReadRange(file, entries[own], c, reply.sig)
    BY <2>1 DEF Answers, own
  <2>3. ReadRange(file, entries[own], c, reply.sig) = Ok(v)  BY <2>2, ReadShape
  <2>4. v.data = BodyRecord(source).data  BY <2>1, <2>3, DecodedFrom
  <2>  QED  BY <2>4 DEF BodyRecord, source
<1>  QED  BY <1>1, LifeInvariant, PTL

(***************************************************************************)
(* For every slot table: a tag's type in the reopened file is the one       *)
(* from_writable reported.                                                  *)
(***************************************************************************)
THEOREM TrueTypesSurvive == LifeSpec => []TrueTypeSurvives
<1>1. LifeInv => TrueTypeSurvives
  <2> SUFFICES ASSUME LifeInv, BothAnswer("tag_true_type")
               PROVE  reply.result = Ok(SlotType(slots[MemSlot(reply.sig)]))
    BY DEF TrueTypeSurvives
  <2> DEFINE own == TagEntryOf(entries, reply.sig)
             source == slots[MemSlot(reply.sig)]
  <2>1. /\ own # 0 /\ Answers("tag_true_type", reply.ctx, reply.sig, reply.result)
        /\ file.blocks[entries[own].offset] = BodyRecord(source)
        /\ entries[own].offset + 8 <= file.len
    BY ReplyAnswers
  <2>  HIDE DEF own, source
  <2>2. reply.result = TrueTypeAt(file, entries[own])  BY <2>1 DEF Answers, own
  <2>3. BodyRecord(source).type = SlotType(source)  BY DEF BodyRecord
  <2>  QED  BY <2>1, <2>2, <2>3, Zenon DEF TrueTypeAt, source
<1>  QED  BY <1>1, LifeInvariant, PTL

\* Decoding a readable builtin body of the range it was written to succeeds.
LEMMA ReadableDecodes ==
    ASSUME NEW f, NEW r, NEW c, NEW sig \in Sig, NEW slot \in Slot, ~IsLink(slot),
           Writable(slot), Readable(slot, sig),
           r.size = SizeOf(slot), r.size \in Nat, r.size >= 8,
           f.blocks[r.offset] = BodyRecord(slot)
    PROVE  /\ PluginFree(f, r, sig)
           /\ ReadRange(f, r, c, sig).ok
           /\ ReadRange(f, r, c, sig).value.data = slot.value.data
<1> DEFINE block == BodyRecord(slot)
           type == SlotType(slot)
           value == [by |-> Builtin, type |-> type, data |-> slot.value.data,
                     payload |-> r.size - 8]
<1>1. /\ block.type = type /\ block.data = slot.value.data
      /\ block.length = r.size - 8 /\ block.decoders = slot.value.decoders
  BY DEF BodyRecord, TypeBase
<1>2. /\ HasDescriptor(sig) /\ type \in AllowedTypes(sig) /\ type \in BuiltinTypes
      /\ Builtin \in slot.value.decoders /\ Elements(slot) >= Descriptor[sig].elem_count
  BY DEF Readable
<1>3. PluginFree(f, r, sig)  BY <1>1, <1>2 DEF PluginFree
<1>4. HandlerOf(c, type) = Builtin /\ Builtin # NoHandler
  BY <1>2, ReadAssumption DEF HandlerOf, Handler
<1>  HIDE DEF type
<1>5. Decode(c, block, r.size - 8) = Ok(value)
  <2>1. block.length <= r.size - 8  BY <1>1
  <2>  HIDE DEF block
  <2>  QED  BY <1>1, <1>2, <1>4, <2>1 DEF Decode
<1>6. ElemCount(value) = Elements(slot) /\ Elements(slot) \in Int
  <2>1. type \in Type /\ ArrayWidth[type] \in Nat  BY <1>2, ReadAssumption
  <2>2. Elements(slot) = IF ArrayWidth[type] = 0 THEN 1
                         ELSE (r.size - 8) \div ArrayWidth[type]
    BY DEF Elements, SizeOf, TypeBase, type
  <2>3. value.by = Builtin /\ value.type = type /\ value.payload = r.size - 8  OBVIOUS
  <2>  HIDE DEF value
  <2>4. ElemCount(value) = IF ArrayWidth[type] > 0 THEN (r.size - 8) \div ArrayWidth[type] ELSE 1
    BY <2>3 DEF ElemCount
  <2>5. (ArrayWidth[type] = 0) <=> ~(ArrayWidth[type] > 0)  BY <2>1
  <2>6. Elements(slot) \in Int
    <3>1. ArrayWidth[type] # 0 => (r.size - 8) \div ArrayWidth[type] \in Int  BY <2>1
    <3>  QED  BY <2>2, <3>1
  <2>  QED  BY <2>2, <2>4, <2>5, <2>6, Zenon
<1>7. ReadRange(f, r, c, sig) = Ok(value)
  <2>1. GoverningRow(c, sig) = Descriptor[sig] /\ Descriptor[sig] # NoDescriptor
    BY <1>2 DEF GoverningRow, HasDescriptor
  <2>2. ~(r.size < 8)  OBVIOUS
  <2>3. \E i \in DOMAIN Descriptor[sig].allowed_types :
           Descriptor[sig].allowed_types[i] = block.type
    BY <1>1, <1>2 DEF AllowedTypes
  <2>4. Ok(value).ok /\ Ok(value).value = value  BY DEF Ok
  <2>5. ~(ElemCount(value) < Descriptor[sig].elem_count)
    <3>1. Descriptor[sig].elem_count \in Nat
      BY <2>1, DescriptorAssumption DEF DescriptorRow
    <3>2. ElemCount(value) \in Int /\ ElemCount(value) >= Descriptor[sig].elem_count
      BY <1>2, <1>6, Zenon
    <3>  QED  BY <3>1, <3>2
  <2>  HIDE DEF block, value
  <2>  QED  BY <1>5, <2>1, <2>2, <2>3, <2>4, <2>5, Zenon DEF ReadRange, block
<1>8. Ok(value).ok /\ Ok(value).value.data = slot.value.data  BY DEF Ok
<1>  QED  BY <1>3, <1>7, <1>8

(***************************************************************************)
(* For every slot table: a tag the reader accepts is read back from the     *)
(* reopened file with its value, whatever was read before.                  *)
(***************************************************************************)
THEOREM ReadableTagsAlwaysRoundTrip == LifeSpec => []ReadableTagsRoundTrip
<1>1. LifeInv => ReadableTagsRoundTrip
  <2> SUFFICES ASSUME LifeInv, BothAnswer("read_tag_in"),
                      Readable(slots[MemSlot(reply.sig)], reply.sig)
               PROVE  /\ reply.result.ok
                      /\ reply.result.value.data = slots[MemSlot(reply.sig)].value.data
    BY DEF ReadableTagsRoundTrip
  <2> DEFINE own == TagEntryOf(entries, reply.sig)
             source == slots[MemSlot(reply.sig)]
  <2>1. /\ reply.sig \in Sig /\ own # 0
        /\ Answers("read_tag_in", reply.ctx, reply.sig, reply.result)
        /\ source \in Slot /\ ~IsLink(source) /\ Writable(source)
        /\ entries[own].size = SizeOf(source)
        /\ file.blocks[entries[own].offset] = BodyRecord(source)
        /\ entries[own].size \in Nat /\ entries[own].size >= 8
    BY ReplyAnswers
  <2>2. Readable(source, reply.sig)  OBVIOUS
  <2>  HIDE DEF own, source
  <2>3. PluginFree(file, entries[own], reply.sig)
    BY <2>1, <2>2, ReadableDecodes
  <2>4. reply.result = ReadRange(file, entries[own], reply.ctx, reply.sig)
    BY <2>1, <2>3 DEF Answers, own
  <2>  QED  BY <2>1, <2>2, <2>4, ReadableDecodes DEF source
<1>  QED  BY <1>1, LifeInvariant, PTL

=============================================================================
