------------------------------ MODULE TagTable ------------------------------
(***************************************************************************)
(* The tag-descriptor table of profile/descriptor.rs as the rest of the     *)
(* profile reader sees it: what a tag signature may be stored as, and how   *)
(* many elements it must hold.  The table itself is a parameter here; its   *)
(* concrete 66 rows are in TagTypes.                                        *)
(***************************************************************************)
EXTENDS Naturals, Sequences

CONSTANTS
    Sig,            \* tag signatures
    Type,           \* on-disk tag-type signatures
    NoDescriptor,   \* descriptor(sig) = None
    Descriptor      \* descriptor(sig), for every signature

DescriptorRow == [elem_count : Nat, allowed_types : Seq(Type)]

ASSUME DescriptorAssumption ==
    /\ NoDescriptor \notin DescriptorRow
    /\ Descriptor \in [Sig -> DescriptorRow \cup {NoDescriptor}]

HasDescriptor(sig) == Descriptor[sig] # NoDescriptor

AllowedTypes(sig) == {Descriptor[sig].allowed_types[i] :
                        i \in DOMAIN Descriptor[sig].allowed_types}

(***************************************************************************)
(* Two tags may share one body on disk only when both are built in and      *)
(* their rows agree: same element count, same types in the same order.      *)
(***************************************************************************)
CompatibleTypes(a, b) ==
    /\ HasDescriptor(a)
    /\ HasDescriptor(b)
    /\ Descriptor[a].allowed_types = Descriptor[b].allowed_types
    /\ Descriptor[a].elem_count = Descriptor[b].elem_count

=============================================================================
