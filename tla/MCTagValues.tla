----------------------------- MODULE MCTagValues -----------------------------
(***************************************************************************)
(* The types a tag passes through (TagResave), the bytes of its values      *)
(* (TagBodies) and whole files (WholeProfile), one of them a behaviour.     *)
(***************************************************************************)
EXTENDS MCBodies, WholeProfile, TagResave

\* Built-in profiles, and headers with versions and signatures at the edge of
\* what is accepted.
Versioned(version) == [VirtualHeader EXCEPT !.version = version]
Bare(header, slots) == [header |-> header, slots |-> slots]
White == <<TagSlot("wtpt", "Xyz", D65)>>

Tenths == Parametric(1, <<144180>>)

Builtins ==
    <<BuildSrgb, BuildRgb(D50, Rec709, Tenths, 82), BuildGray(D65, Tenths),
      BuildLab2, BuildLab4, BuildXyz, BuildNull, BuildLinearization("Rgb", <<Tenths, Tenths, Tenths>>)>>

MCProfiles ==
    Builtins
    \o <<Bare(Versioned(<<9, 200, 7, 7>>), White),    \* too new once clamped
         Bare(Versioned(<<5, 0, 1, 0>>), White),      \* 5.0, the last there is
         Bare(Versioned(<<3, 160, 0, 0>>), White),    \* 3.10: written as 4.0, read as 3.9
         Bare([VirtualHeader EXCEPT !.color_space = Other(7), !.pcs = Other(1234), !.flags = 3,
                                    !.device_class = Other(9), !.attributes = <<1, 2>>,
                                    !.rendering_intent = Other(70), !.illuminant = D65,
                                    !.profile_id = [i \in 1..16 |-> 255 - i]], <<>>),
         Bare(VirtualHeader, <<LinkSlot("gTRC", "rTRC"), TagSlot("rTRC", "Curve", Tenths),
                               LinkSlot("chrm", "rTRC"), LinkSlot("bTRC", "rTRC")>>),
         Bare(VirtualHeader, <<LinkSlot("gTRC", "bTRC"), LinkSlot("bTRC", "gTRC")>>),
         Bare(VirtualHeader, <<TagSlot("rTRC", "Curve", Segmented(<<Formula(6, <<1, 2, 3, 4>>)>>))>>),
         Bare(VirtualHeader, <<TagSlot("rTRC", "Curve", Segmented(<<Sampled(<<1, 5, 7>>)>>))>>),
         Bare(VirtualHeader, <<TagSlot("wtpt", "Xyz", D50), TagSlot("wtpt", "Xyz", D65)>>)>>

MCCuts == {0, 40, 100, 127, 131, 132} \cup {20 * k + 7 : k \in 6..50}

-----------------------------------------------------------------------------
\* The machines that do not run: no item, a tag that was refused, no profile.
BodiesIdle ==
    /\ item = [type |-> "none"] /\ first = <<>> /\ saves = 0 /\ file = <<>>
    /\ start = 0 /\ size = 0 /\ cut = FALSE /\ step = "idle" /\ outcome = Failed
TagIdle ==
    /\ sig = "scrn" /\ stored = "scrn" /\ body = <<>> /\ save = "refused"
    /\ origin = [stored |-> "scrn", body |-> <<>>]
WholeIdle ==
    /\ profile = <<>> /\ image = <<>> /\ earlier = <<>> /\ torn = FALSE
    /\ view = Failed /\ answer = NoAnswer /\ phase = "idle"

ValuesInit ==
    \/ TagInit /\ BodiesIdle /\ WholeIdle
    \/ BodyInit /\ TagIdle /\ WholeIdle
    \/ WholeInit /\ TagIdle /\ BodiesIdle
ValuesNext ==
    \/ TagNext /\ UNCHANGED <<bodyVars, wholeVars>>
    \/ BodyNext /\ UNCHANGED <<tagVars, wholeVars>>
    \/ WholeNext /\ UNCHANGED <<tagVars, bodyVars>>
ValuesSpec == ValuesInit /\ [][ValuesNext]_<<bodyVars, tagVars, wholeVars>>
=============================================================================
