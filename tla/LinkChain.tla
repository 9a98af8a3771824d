------------------------------ MODULE LinkChain ------------------------------
(***************************************************************************)
(* A chain of profiles linked into one pipeline: the walk over the profiles *)
(* (link/intents.rs, default_icc_intents), then the structural              *)
(* simplification (pipeline/mod.rs, pre_optimize) one removal at a time,    *)
(* and the final width guard.  Transform::new_in (transform.rs) starts it,  *)
(* with no intent plug-in registered, and records the entry and exit        *)
(* spaces it works out on its own.                                          *)
(***************************************************************************)
EXTENDS ProfileLut

CONSTANTS
    Catalogue,  \* the profiles a caller may link, by name
    Chains      \* the calls: non-empty sequences of legs

Leg == [profile : DOMAIN Catalogue, intent : Nat, bpc : BOOLEAN,
        adaptation : {"full", "none", "partial"}]

\* The elements a LUT tag can hold: none converts between PCS, and an identity
\* gives what it takes.
StageRecord == [op : STRING, from : STRING, to : STRING, offset : BOOLEAN]
PcsConversions == {"Lab2Xyz", "Xyz2Lab", "LabV4ToV2", "LabV2ToV4"}
TagStage(s) ==
    /\ s.op \notin PcsConversions
    /\ s.op \in {"Identity", "IdentityClut"} => s.from = s.to

\* A LUT tag; the D tags, and only they, are 'mpet' (descriptor.rs).
FloatTags == {"D2B0", "D2B1", "D2B2", "D2B3", "B2D0", "B2D1", "B2D2", "B2D3"}
IsLutTag(tag, lut) ==
    /\ lut \in [ok : BOOLEAN, type : STRING, stages : Seq(StageRecord), in : Nat, out : Nat]
    /\ \A k \in DOMAIN lut.stages : TagStage(lut.stages[k])
    /\ lut.ok => (lut.type = "mpet" <=> tag \in FloatTags)

ASSUME ProfilesAssumption ==
    \A name \in DOMAIN Catalogue :
        LET p == Catalogue[name]
        IN  /\ DOMAIN p.luts \subseteq LutTags
            /\ \A tag \in DOMAIN p.luts : IsLutTag(tag, p.luts[tag])
            /\ {p.v4, p.gray} \subseteq BOOLEAN
            /\ {p.class, p.space, p.pcs, p.linear, p.named} \subseteq STRING

ASSUME ChainsAssumption == Chains \subseteq Seq(Leg) \ {<<>>}

VARIABLES
    phase,    \* "idle", "linking", "optimizing", "linked" or "refused"
    chain,    \* the legs: profiles with their settings
    i,        \* the leg the walk is at
    current,  \* current_color_space
    pipe,     \* result
    rule,     \* the rule pre_optimize is at, 1..6
    at,       \* the stage it is at
    fired,    \* any, in pre_optimize
    merged    \* any, in multiply_matrix

linkVars == <<phase, chain, i, current, pipe, rule, at, fired, merged>>
ruleVars == <<rule, at, fired, merged>>

-----------------------------------------------------------------------------
ProfileOf(leg) == Catalogue[leg.profile]

(***************************************************************************)
(* The colour adaptation between two profiles (compute_conversion), as      *)
(* is_empty_layer sees it: "none" is empty, "matrix" is not, "error" is a   *)
(* failure.  What black-point detection and a chromatic adaptation without  *)
(* an adapted observer come to is a matter of floating-point numbers: any   *)
(* of the three.  Either may fail on a degenerate white point.              *)
(***************************************************************************)
AbsoluteLayers(previous, leg) ==
    CASE leg.adaptation = "full" ->
           {IF ProfileOf(previous).white = ProfileOf(leg).white THEN "none" ELSE "matrix", "error"}
      [] leg.adaptation = "none" -> {"none", "matrix", "error"}
      [] OTHER -> {"error"}

\* link_bpc_mutation: off for absolute colorimetric, on for perceptual and
\* saturation under version 4.
BpcOf(leg) ==
    CASE leg.intent = 3 -> FALSE
      [] leg.intent \in {0, 2} /\ ProfileOf(leg).v4 -> TRUE
      [] OTHER -> leg.bpc

Layers(previous, leg) ==
    CASE leg.intent = 3 -> AbsoluteLayers(previous, leg)
      [] leg.intent # 3 /\ BpcOf(leg) -> {"none", "matrix", "error"}
      [] OTHER -> {"none"}

\* Insertions at the end, of stages that chain among themselves.
InsertAll(p, stages) ==
    IF stages = <<>> THEN p
    ELSE IF p.ok /\ Width(First(stages).from) = OpenWidth(p)
    THEN [p EXCEPT !.stages = @ \o stages]
    ELSE NoPipeline

\* Mutant: the matrix goes in before the Lab values are converted.
ConversionStagesMatrixFirst(in, out, layer) ==
    LET adapt == When(layer = "matrix", OffsetMatrix("XYZ", "XYZ"))
    IN  CASE in = "XYZ" /\ out = "Lab" -> adapt \o <<Xyz2Lab>>
          [] in = "Lab" /\ out = "XYZ" -> adapt \o <<Lab2Xyz>>
          [] in = out /\ in = "Lab" /\ layer = "matrix" -> <<Lab2Xyz>> \o adapt \o <<Xyz2Lab>>
          [] OTHER -> IF in = "XYZ" THEN adapt ELSE <<>>

\* The stages add_conversion appends; its matrix always carries an offset.
ConversionStages(in, out, layer) ==
    LET adapt == When(layer = "matrix", OffsetMatrix("XYZ", "XYZ"))
    IN  CASE in = "XYZ" /\ out = "XYZ" -> adapt
          [] in = "XYZ" /\ out = "Lab" -> adapt \o <<Xyz2Lab>>
          [] in = "Lab" /\ out = "XYZ" -> <<Lab2Xyz>> \o adapt
          [] in = "Lab" /\ out = "Lab" /\ layer = "matrix" -> <<Lab2Xyz>> \o adapt \o <<Xyz2Lab>>
          [] OTHER -> <<>>

AddConversion(p, in, out, layer) ==
    IF layer = "error" \/ (in # out /\ {in, out} # PCS) THEN NoPipeline
    ELSE InsertAll(p, ConversionStages(in, out, layer))

-----------------------------------------------------------------------------
Profile == ProfileOf(chain[i])

IsDeviceLink(p) == p.class \in {"Link", "Abstract"}
SingleNamed == Profile.class = "NamedColor" /\ Len(chain) = 1

\* l_is_input
IsInput ==
    \/ i = 1 /\ ~IsDeviceLink(Profile)
    \/ current \notin PCS

\* color_space_in and color_space_out of the leg the walk is at.
DeviceToPcs == IsInput \/ IsDeviceLink(Profile)
SpaceIn == IF DeviceToPcs THEN Profile.space ELSE Profile.pcs
SpaceOut == IF DeviceToPcs THEN Profile.pcs ELSE Profile.space

\* color_space_is_compatible
Compatible(a, b) ==
    \/ a = b
    \/ {a, b} = {"MCH4", "CMYK"}
    \/ {a, b} = PCS

\* channels_of_color_space
Channels(space) == Width(EncodingOf(space))

LinkInit ==
    /\ phase = "idle"
    /\ chain = <<>>
    /\ i = 0
    /\ current = "Lab"
    /\ pipe = NoPipeline
    /\ rule = 1
    /\ at = 1
    /\ fired = FALSE
    /\ merged = FALSE

Begin ==
    /\ phase = "idle"
    /\ chain' \in Chains
    /\ phase' = "linking"
    /\ i' = 1
    /\ current' = ProfileOf(chain'[1]).space
    /\ pipe' = NewPipeline(0, 0)
    /\ UNCHANGED ruleVars

\* The pipeline or the error goes to the caller.
Return ==
    /\ phase \in {"linked", "refused"}
    /\ phase' = "idle"
    /\ chain' = <<>>
    /\ i' = 0
    /\ current' = "Lab"
    /\ pipe' = NoPipeline
    /\ rule' = 1
    /\ at' = 1
    /\ fired' = FALSE
    /\ merged' = FALSE

Walking == phase = "linking" /\ i <= Len(chain)

Refuse ==
    /\ phase' = "refused"
    /\ pipe' = NoPipeline
    /\ UNCHANGED <<chain, i, current, ruleVars>>

\* The end of one turn of the loop; any error before it ends the whole walk.
ConcatLeg(result) ==
    IF result.ok
    THEN /\ pipe' = result
         /\ current' = SpaceOut
         /\ i' = i + 1
         /\ UNCHANGED <<phase, chain, ruleVars>>
    ELSE Refuse

LegLayers == Layers(chain[i - 1], chain[i])

\* What add_conversion and concat may come to.
Adapted(layers, lut) ==
    {Concat(AddConversion(pipe, current, SpaceIn, layer), lut) : layer \in layers}

Mismatch ==
    /\ Walking
    /\ ~Compatible(SpaceIn, current)
    /\ Refuse

DeviceLinkLeg ==
    /\ Walking
    /\ Compatible(SpaceIn, current)
    /\ IsDeviceLink(Profile) \/ SingleNamed
    /\ \E result \in Adapted(IF Profile.class = "Abstract" /\ i > 1 THEN LegLayers ELSE {"none"},
                            ReadDevicelinkLut(Profile, chain[i].intent)) :
         ConcatLeg(result)

InputLeg ==
    /\ Walking
    /\ Compatible(SpaceIn, current)
    /\ ~(IsDeviceLink(Profile) \/ SingleNamed)
    /\ IsInput
    /\ \E result \in {Concat(pipe, ReadInputLut(Profile, chain[i].intent))} : ConcatLeg(result)

OutputLeg ==
    /\ Walking
    /\ Compatible(SpaceIn, current)
    /\ ~(IsDeviceLink(Profile) \/ SingleNamed)
    /\ ~IsInput
    /\ \E result \in Adapted(LegLayers, ReadOutputLut(Profile, chain[i].intent)) :
         ConcatLeg(result)

EndOfChain ==
    /\ phase = "linking"
    /\ i > Len(chain)
    /\ phase' = "optimizing"
    /\ rule' = 1
    /\ at' = 1
    /\ fired' = FALSE
    /\ merged' = FALSE
    /\ UNCHANGED <<chain, i, current, pipe>>

-----------------------------------------------------------------------------
(***************************************************************************)
(* pre_optimize: six rules in turn, each from the first stage to the last,  *)
(* until none fires.  An action is one removal; the turns of a rule's loop  *)
(* that only move on are part of the next one.                              *)
(***************************************************************************)
Pair(r) ==
    CASE r = 2 -> <<"Xyz2Lab", "Lab2Xyz">>
      [] r = 3 -> <<"Lab2Xyz", "Xyz2Lab">>
      [] r = 4 -> <<"LabV4ToV2", "LabV2ToV4">>
      [] r = 5 -> <<"LabV2ToV4", "LabV4ToV2">>
      [] OTHER -> <<"Matrix", "Matrix">>

\* Rule r has something to do at stage k.
Matches(r, stages, k) ==
    IF r = 1 THEN stages[k].op \in {"Identity", "IdentityClut"}
    ELSE /\ k < Len(stages)
         /\ stages[k].op = Pair(r)[1]
         /\ stages[k + 1].op = Pair(r)[2]

\* ... and k is the first such stage from `at` on.
NextMatch(k) ==
    /\ k \in at..Len(pipe.stages)
    /\ Matches(rule, pipe.stages, k)
    /\ \A j \in at..(k - 1) : ~Matches(rule, pipe.stages, j)

NoMatch == \A k \in at..Len(pipe.stages) : ~Matches(rule, pipe.stages, k)

\* The sequence without its n elements from the k-th on.
Without(seq, k, n) == [j \in 1..(Len(seq) - n) |-> IF j < k THEN seq[j] ELSE seq[j + n]]

\* matrix_pair_mergeable
Mergeable(a, b) ==
    /\ ~a.offset /\ ~b.offset
    /\ {Width(a.from), Width(a.to), Width(b.from), Width(b.to)} = {3}

Product(a, b) == Stage("Matrix", a.from, b.to)

\* Both matrices go; their product comes in unless it is the identity.
Multiplied(stages, k) ==
    LET product == Product(stages[k], stages[k + 1])
    IN  IF product.from = product.to THEN Without(stages, k, 2)
        ELSE [Without(stages, k, 1) EXCEPT ![k] = product]

Optimizing == phase = "optimizing"

RemoveMatch ==
    /\ Optimizing
    /\ rule <= 5
    /\ \E k \in DOMAIN pipe.stages :
         /\ NextMatch(k)
         /\ pipe' = [pipe EXCEPT !.stages = Without(@, k, IF rule = 1 THEN 1 ELSE 2)]
         /\ at' = k
    /\ fired' = TRUE
    /\ UNCHANGED <<phase, chain, i, current, rule, merged>>

MultiplyMatrices ==
    /\ Optimizing
    /\ rule = 6
    /\ \E k \in DOMAIN pipe.stages :
         /\ NextMatch(k)
         /\ Mergeable(pipe.stages[k], pipe.stages[k + 1])
         /\ pipe' = [pipe EXCEPT !.stages = Multiplied(@, k)]
         /\ at' = k
    /\ merged' = TRUE
    /\ UNCHANGED <<phase, chain, i, current, rule, fired>>

NextRule ==
    /\ Optimizing
    /\ rule <= 5
    /\ NoMatch
    /\ rule' = rule + 1
    /\ at' = 1
    /\ UNCHANGED <<phase, chain, i, current, pipe, fired, merged>>

\* multiply_matrix returns FALSE at a pair it cannot merge, whatever it has
\* merged before; at the end of the stages it returns what it did.
PassBails ==
    \E k \in DOMAIN pipe.stages :
        NextMatch(k) /\ ~Mergeable(pipe.stages[k], pipe.stages[k + 1])

PassEnds == rule = 6 /\ (NoMatch \/ PassBails)

\* Mutant: any = instead of any |=, so that only the last rule counts.
AnyFiredLastRule == NoMatch /\ merged

AnyFired == fired \/ (NoMatch /\ merged)

\* Mutant: any outlives its pass.
NextPassKeepsAny ==
    /\ Optimizing
    /\ PassEnds
    /\ AnyFired
    /\ rule' = 1
    /\ at' = 1
    /\ UNCHANGED <<phase, chain, i, current, pipe, fired, merged>>

NextPass ==
    /\ Optimizing
    /\ PassEnds
    /\ AnyFired
    /\ rule' = 1
    /\ at' = 1
    /\ fired' = FALSE
    /\ merged' = FALSE
    /\ UNCHANGED <<phase, chain, i, current, pipe>>

\* final_is_named_device, which skips the final guard.
NamedDevice == Len(chain) = 1 /\ ProfileOf(chain[1]).class = "NamedColor"

FinalGuard ==
    /\ Optimizing
    /\ PassEnds
    /\ ~AnyFired
    /\ IF NamedDevice \/ pipe.out = Channels(current)
       THEN phase' = "linked" /\ UNCHANGED <<chain, i, current, pipe, ruleVars>>
       ELSE Refuse

-----------------------------------------------------------------------------
WalkStep == Mismatch \/ DeviceLinkLeg \/ InputLeg \/ OutputLeg \/ EndOfChain
OptimizeStep == RemoveMatch \/ MultiplyMatrices \/ NextRule \/ NextPass \/ FinalGuard

LinkNext == Begin \/ WalkStep \/ OptimizeStep \/ Return

LinkSpec == LinkInit /\ [][LinkNext]_linkVars

\* The thread that links runs on.
FairLinkSpec == LinkSpec /\ WF_linkVars(WalkStep \/ OptimizeStep)

-----------------------------------------------------------------------------
(***************************************************************************)
(* xform_color_spaces (transform.rs): the entry and exit spaces a transform *)
(* reports, from a walk of its own.  "1CLR" is cmsSig1colorData.            *)
(***************************************************************************)
\* Mutant: a link profile is walked by the space before it.
XformDirectionAnyClass(legs, p, post) ==
    IF p.class = "NamedColor"
    THEN [in |-> "1CLR", out |-> IF Len(legs) > 1 THEN p.pcs ELSE p.space]
    ELSE IF post \notin PCS
    THEN [in |-> p.space, out |-> p.pcs]
    ELSE [in |-> p.pcs, out |-> p.space]

XformDirection(legs, p, post) ==
    IF p.class = "NamedColor"
    THEN [in |-> "1CLR", out |-> IF Len(legs) > 1 THEN p.pcs ELSE p.space]
    ELSE IF post \notin PCS \/ p.class = "Link"
    THEN [in |-> p.space, out |-> p.pcs]
    ELSE [in |-> p.pcs, out |-> p.space]

\* post_color_space after each of the profiles.
PostColorSpaces(legs) ==
    LET post[k \in 0..Len(legs)] ==
            IF k = 0 THEN ProfileOf(legs[1]).space
            ELSE XformDirection(legs, ProfileOf(legs[k]), post[k - 1]).out
    IN  post

EntryColorSpace == XformDirection(chain, ProfileOf(chain[1]), ProfileOf(chain[1]).space).in
ExitColorSpace == PostColorSpaces(chain)[Len(chain)]

-----------------------------------------------------------------------------
\* Stages that lead from one encoding to another, each taking what the one
\* before it gives.
Connected(stages, from, to) ==
    IF stages = <<>> THEN from = to
    ELSE /\ First(stages).from = from
         /\ Last(stages).to = to
         /\ \A k \in 1..(Len(stages) - 1) : stages[k].to = stages[k + 1].from

\* The sides of a profile a LUT tag connects.
TagSides(p, tag) ==
    IF tag \in {"A2B0", "A2B1", "A2B2", "D2B0", "D2B1", "D2B2", "D2B3"}
    THEN <<p.space, p.pcs>> ELSE <<p.pcs, p.space>>

\* A profile whose LUT tags connect the two sides its header names.
SoundProfile(p) ==
    /\ \A tag \in DOMAIN p.luts :
          LET lut == p.luts[tag]
              sides == TagSides(p, tag)
          IN  lut.ok => /\ Connected(lut.stages, BodyEncoding(lut.type, sides[1]),
                                     BodyEncoding(lut.type, sides[2]))
                        /\ lut.in = Width(EncodingOf(sides[1]))
                        /\ lut.out = Width(EncodingOf(sides[2]))
    /\ ~IsDeviceLink(p) => p.pcs \in PCS
    /\ p.linear # "" => p.space = "RGB"
    /\ p.named # "" => p.named = BodyEncoding("mft2", p.space)

SoundProfiles == {name \in DOMAIN Catalogue : SoundProfile(Catalogue[name])}

(***************************************************************************)
(* Readings that take the numbers of a tag for something they are not, as   *)
(* lcms2 does: a device link's perceptual float tag under another intent    *)
(* (profile_lut.rs:488-492); the Lab device side of a 'mft2' tag where the  *)
(* PCS is XYZ (:220-222, :372-374); a named-colour profile after another,   *)
(* and one whose PCS is XYZ, as "the named color list always uses Lab"      *)
(* (:188).                                                                  *)
(***************************************************************************)
Misread(legs, k) ==
    LET p == ProfileOf(legs[k])
        intent == legs[k].intent
    IN  \/ /\ IsDeviceLink(p)
           /\ IccIntent(intent)
           /\ HasTag(p, "D2B0") /\ ~HasTag(p, Device2PcsFloat[intent + 1])
           /\ {p.space, p.pcs} \cap PCS # {}
        \/ /\ ~IsDeviceLink(p)
           /\ p.space = "Lab" /\ p.pcs # "Lab"
           /\ \E tag \in DOMAIN p.luts : p.luts[tag].type = "mft2"
        \/ p.class = "NamedColor" /\ (k > 1 \/ (p.pcs # "Lab" /\ Len(legs) > 1))

\* What the chain starts from and what it has come to.
EntryEncoding ==
    IF ProfileOf(chain[1]).class = "NamedColor" THEN "index"
    ELSE EncodingOf(ProfileOf(chain[1]).space)
CurrentEncoding ==
    IF i = 1 THEN EntryEncoding
    ELSE IF NamedDevice THEN EncodingOf(ProfileOf(chain[1]).space)
    ELSE EncodingOf(current)

(***************************************************************************)
(* Every stage of the pipeline takes the numbers in the encoding the stage  *)
(* before it gives them in, from the encoding of the first profile to that  *)
(* of the space the walk has come to: no Lab of one version read as the     *)
(* other's, no floating-point PCS value read as a 0..1 one, at any junction *)
(* of a tag, a normalizer, a conversion and a shaper, and after every       *)
(* removal of pre_optimize.                                                 *)
(***************************************************************************)
EncodingsMeet ==
    (/\ phase \in {"linking", "optimizing", "linked"}
     /\ \A k \in 1..(i - 1) : chain[k].profile \in SoundProfiles /\ ~Misread(chain, k)) =>
        Connected(pipe.stages, EntryEncoding, CurrentEncoding)

(***************************************************************************)
(* A linked pipeline is simplified: no identity and no pair of inverse PCS  *)
(* conversions is left, whatever order the removals brought them together   *)
(* in, unless the last pass merged matrices before it bailed out.           *)
(***************************************************************************)
InversePairsGone ==
    (phase = "linked" /\ ~merged) =>
        \A r \in 1..5, k \in DOMAIN pipe.stages : ~Matches(r, pipe.stages, k)

(***************************************************************************)
(* The exit space a transform reports is the one its pipeline was linked    *)
(* to, and the entry space the one it was linked from: the two walks agree  *)
(* but for named colours, a first profile whose device side is a PCS, and   *)
(* an abstract profile that changes the PCS.                                *)
(***************************************************************************)
WalksAgree ==
    (/\ phase = "linked"
     /\ \A k \in DOMAIN chain : ProfileOf(chain[k]).class # "NamedColor"
     /\ ProfileOf(chain[1]).space \notin PCS \/ IsDeviceLink(ProfileOf(chain[1]))
     /\ \A k \in DOMAIN chain :
          ProfileOf(chain[k]).class = "Abstract" => ProfileOf(chain[k]).space = ProfileOf(chain[k]).pcs) =>
        /\ EntryColorSpace = ProfileOf(chain[1]).space
        /\ ExitColorSpace = current

(***************************************************************************)
(* Linking always ends, in a pipeline or in an error: the rules of          *)
(* pre_optimize never feed each other for ever.                             *)
(***************************************************************************)
LinkingEnds == phase = "linking" ~> phase \in {"linked", "refused"}

(***************************************************************************)
(* pipeline/mod.rs:182-184, in concat: "After appending all of other's      *)
(* stages, BlessLUT has set output_channels = last stage's output =         *)
(* other.output_channels."                                                  *)
(***************************************************************************)
DeclaredWidthIsTheLastStages ==
    (phase \in {"linking", "linked"} /\ pipe.stages # <<>>) =>
        pipe.out = Width(Last(pipe.stages).to)

=============================================================================
