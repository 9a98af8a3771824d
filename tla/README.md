# A TLA+ verification of tintbox

tintbox is a Rust port of the lcms2 colour engine: it reads and writes ICC
profiles, links a chain of profiles into a pipeline of stages, and runs pixels
through that pipeline. These modules model what it accepts, caches, links, saves
and reads back, step by step; the bytes of its files; the layout of its pixels;
and the arithmetic of its table interpolators in scaled integers. All paths below
are relative to `src/crates/tintbox/src/`.

## 1. The system

The crate is a library: no threads of its own, no messages, no timers, no
files besides the byte slices callers hand it. Its state lives in these places.

| Component | State | Operations | What makes it correct |
|---|---|---|---|
| **Opening** `profile/directory.rs` | list of `TagEntry` | `Profile::open`, `parse_directory` | accepted ranges lie in the file; links go back to compatible tags over the same bytes; a tag appears once |
| **Header** `profile/header.rs` | header fields | `Header::parse`, `write_header`, `validate_version` | every field comes back as written, but for what the format fixes |
| **Tag reads and cache** `profile/mod.rs`, `profile/types/mod.rs` | decoded-value cache keyed by resolved signature | `read_tag`, `read_tag_in`, `read_tag_raw`, `tag_true_type`, `search_tag` | links and the cache are invisible; failed reads leave nothing behind |
| **Descriptors** `profile/descriptor.rs` | a constant table | `descriptor`, `compatible_types` | the writer's choice of type is one the reader's table allows |
| **Writer** `profile/serialize.rs` | slots of a `WritableProfile`, positions and layouts of the two passes | `add_tag`, `link_tag`, `save_to_mem_in` | the directory of pass 1 describes the bytes of pass 2 |
| **In-memory profiles** `Profile::from_writable` | the values themselves | all reads, without bytes | the same answers as after save and reopen |
| **Type deciders, LUT writers** `profile/serialize.rs`, `profile/types/lut.rs` | none | `write_type_for_builtin`, `disassemble_*`, `write_lut16`, `write_mab_mba` | a re-saved tag stays readable and keeps its meaning |
| **Tag bodies** `profile/types/`, `profile/tag.rs`, `io/` | a cursor in a byte slice | one reader and one writer per type | a reader is the inverse of its writer wherever the body lies, and stays in its tag |
| **Built-in profiles** `profile/virtuals.rs` | none | eight constructors | what they build can be saved, opened and read |
| **Contexts and plug-ins** `context.rs`, `plugin.rs` | six registries, alarm codes, adaptation state | `register_*`, find by type or tag | builtins are never shadowed; the order of registration decides |
| **Link chain** `link/intents.rs`, `link/profile_lut.rs`, `link/black_point.rs` | pipeline under construction, current colour space | `link_icc_intents_in`, `default_icc_intents`, `add_conversion` | adjacent stages agree on space and channels |
| **Pipelines** `pipeline/` | list of stages, in/out channels | `insert_stage_*`, `concat`, `pre_optimize`, `eval` | widths chain; rewriting ends and preserves the function |
| **Transforms** `transform.rs`, `opt/` | pipeline, formatters, gamut check, workspace | `new_in`, `new_extended`, `do_transform*` | the fast paths equal the one-pixel loop |
| **Pixel formats** `format/` | the format word of each side | find a formatter, unpack, pack, copy alpha | each channel arrives where the format says |
| **Interpolation** `interp.rs`, `pipeline/clut.rs`, `curve/interp.rs` | a table and its geometry | one kernel per number of inputs and path | nodes are exact; every kernel is the same weighted mean |
| **Text formats** `cgats.rs` | parser cursor, current table, fields and sets | `load_from_mem`, edits, `save_to_mem`, cube links | tables and counts agree with the data |
| **Numerics** `curve/`, `math/`, `cam02.rs`, `pcs.rs`, `adapt.rs`, `fixed.rs`, `simd.rs` | none | evaluation | equality with lcms2 (differential tests) |
| **Gamut tools** `gamut/`, **PostScript** `ps.rs` | sector table of a boundary; text | `gdb_*`, TAC; CSA/CRD emission | geometry; layout |

**How they interact.** `Profile::open` fills the directory every read goes
through. The writer calls the descriptor table, the deciders and the writers of
the bodies; its output is what `Profile::open` reads, and `from_writable` builds a
`Profile` from the same slots without bytes. The link chain reads tags from every
profile of the chain through the cache, builds one pipeline, and the transform
optimizes it, picks formatters and runs pixels, through the interpolators for
every table. A `.cube` file becomes a device link. A `Context` is passed down
every one of these calls and never stored in the objects it influences, except
through what the cache keeps.

**What is hard here.** The cache is consulted before any check and is shared by
callers with different contexts. Shared bodies make links that form chains. The
directory's range arithmetic wraps at 2^32. The writer lays bodies out twice from
different origins. One `WritableProfile` can be looked at in memory or through a
file. Types are chosen at save time from the value, the tag and the version, so
a tag changes representation as it travels. Bodies hold offsets relative to three
different bases, patched after the fact, and are read with sizes the directory
declares and counts they declare themselves. A chain decides each profile's
direction from the colour space the previous one left. A batched pixel loop
reuses buffers and copies results from one pixel to the next. A table has no node
after its last. A parser keeps its table, its counts and its schema in shared
cursors. `PROJECT.json` lists these hazards with their lines.

## 2. The modules and the code

| Module | Models | State |
|---|---|---|
| `TagTable` | `profile/descriptor.rs`: rows, `compatible_types` | none (parameters `Sig`, `Type`, `Descriptor`) |
| `ProfileFile` | what a file is for `parse_directory`, and its u32 arithmetic | none (parameters `Files`, `U32`) |
| `Directory` | `Profile::open` → `parse_directory`, `tag_entry`, `search_tag` | `file`, `phase`, `seen`, `entries` |
| `TagRead` | what one uncached read of a range answers: type check, registries, decoders, element floor | none |
| `Profile` | `Directory` + the three read calls, hop by hop, with the cache | adds `cache`, `request`, `reply` |
| `TagReader` | **abstract**: open a file or refuse it, answer a read from the file alone | the answer |
| `Serializer` | `add_tag`, `link_tag`, both passes of `save_to_mem_in` | `slots`, `stage`, `at`, `position`, `layouts`, `total`, `written`, `headerValid` |
| `Lifecycle` | **composition** of `Serializer` and `Profile`: build, save, open the saved file, read; against `from_writable` | both |
| `TagTypes` | the 66 rows of `SUPPORTED_TAGS` and the type deciders | none |
| `TagResave` | which stage lists a LUT type reads as, accepts and gives back; one tag, read and saved under version 2 or 4 over and over | the tag, its type and body, and what was first read |
| `ByteStream` | `io/`: numbers, bytes, alignment, short reads | none |
| `TextBodies`, `StageBodies`, `BlockBodies`, `PlainBodies` | the writer and the reader of each tag type, field by field; in `PlainBodies` also what a type can hold of a value | none |
| `TagBodies` | a value written, read (also with a size cut short) and written again | the value, the file, the declared size, the outcome |
| `ProfileHeader` | `write_header`, `Header::parse`, the version digits | none |
| `VirtualProfiles` | the eight constructors of `profile/virtuals.rs` | none |
| `WholeProfile` | **composition** of header, directory, deciders and bodies: a whole file, saved, cut short, opened, read, copied and saved again | the profile, its file, what `open` made of it, the last answer |
| `ProfileLut` | `link/profile_lut.rs`: the pipeline a profile's tags are read as; `pipeline/mod.rs`: insertion and concatenation | none |
| `LinkChain` | `Transform::new_in` → `default_icc_intents`, `pre_optimize`, `xform_color_spaces` | `phase`, `chain`, `i`, `current`, `pipe`, `rule`, `at`, `fired`, `merged` |
| `PixelLoop` | **abstract**: a call converts its pixels one after the other | the call's buffers and how far it is |
| `BatchedTransform` | `do_transform_with_workspace` with `do_transform_batched` and the workspace | adds the tile's phase and position and the workspace buffers |
| `FusedRuns` | `accurate_fast` of `opt/mod.rs`, `opt/lossless_matshaper.rs`, `opt/batched.rs`: building the plan, sizing the scratch, evaluating tiles | `phase`, `link`, `plan`, `i`, the tile's number, the scratch's sizes, the output |
| `PixelFormats` | `format/`: the format word, the choice of formatters, unpack, pack, alpha copy | the job, the values between, the packed output |
| `Interpolation` | `interp.rs`, `pipeline/clut.rs`, `curve/interp.rs`: geometry, choice of kernel, the kernels | the table and its input, kernel, result |
| `CgatsText` | the lexer of `cgats.rs` | none |
| `Cgats` | `load_from_mem`, the editing calls, `save_to_mem`, loading again | the parser's cursor and section, the tables, the schema lists |
| `CubeFile` | `parse_cube`, `create_devicelink_from_cube_mem` | the parser's cursor, domain, sizes, the stages |
| `MCDirectory`, `MCProfile`, `MCLifecycle`, `MCTagValues`, `MCBodies`, `MCLinkChain`, `MCBatchedTransform`, `MCKernels`, `MCCgats` | instances for TLC, one per run (`MCBodies` the values `MCTagValues` saves; `MCKernels` runs `PixelFormats`, `Interpolation` and `FusedRuns`) | |
| `IndexLemmas` | **lemmas**: least and largest of a set of indices, induction along an interval, products that grow | |
| `Profile_proofs`, `Lifecycle_proofs`, `LinkChain_proofs`, `BatchedTransform_proofs`, `Interpolation_proofs`, `Cgats_proofs` | theorems about the module of that name (`Profile_proofs` about `Directory` too, `Lifecycle_proofs` about `Serializer`, `Cgats_proofs` about `CubeFile`); the composition's build on its parts' | |
| `Kernels_proofs` | theorems about `FusedRuns` and `PixelFormats` | |

**Directory.** `Open` takes a file and does the header test; `ParseEntry` is one
iteration of the loop at `directory.rs:71-103` with both `continue`s and the
link search; `Truncated` is the `?` of a read that runs off the slice;
`FinishDirectory` is the duplicate test. Positions, sizes and the sum
`offset + size` are modulo `U32`, the modelled word. A file is its header fields
that matter, its length and its raw table. Entries are numbered from 1, and 0
stands for the `None` of `tag_entry`.

**Profile.** A call is a `request` record; `FollowLink` is one turn of
`search_tag`'s loop, and the `Return*` actions are the ways out of the three
calls, in the order of the code: absent, cached, decoded; true type; raw. `&self`
with a `RefCell` cache means one call at a time, so a call's steps are not
interleaved with another call's on the same profile; *which* caller comes next,
with which `Context`, is free. A body is a record of its type, its content, its
decoded length and the decoders that accept it, so plug-ins that disagree with
the builtin decoder can be told apart. `TagReader` promises that a read depends
on the file, the tag and the context only; `Profile` implements it for tags that
no plug-in has a say in, with the cache and the links hidden
(`ReaderRefined`, where `OwnRanges` is the refinement mapping).

**Serializer.** The body of a value is `lead` bytes, zero padding to a multiple
of `align` *in the position the writer shows*, and `tail` bytes: that is the only
thing about a body the two passes can disagree on. `LayoutSlot` and `SkipLink`
are the iterations of pass 1, `ResolveLink` the loop between the passes (a link
takes the range of the first body with the target's signature), `WriteSlot` pass
2. `Fail` collects the early returns. `SavedFile` is the result as a file that
`Directory` can open, so that `Lifecycle` can use the reader on the writer's
output.

**TagTypes, TagResave.** The table and the deciders are transcribed;
a LUT body is the list of its stages, each with the one attribute the writers
look at (an identity curve set, tables of unequal lengths, a matrix with an
offset, a CLUT with unequal grid points). What a save and a read make of it
follows `disassemble_*`, `write_*` and `read_lut_*`.

**The bodies.** A file is a sequence of bytes, a reader a function from a position
to a value and the position after it, or a failure; a writer is the bytes it
appends. Every offset in a body is computed as its writer does, relative to what
the code makes it relative to, and the body is placed at different positions of a
file with other bytes behind it. A text is a sequence of 16-bit units, a fixed-point
number its raw value, a float its bits, so that what an encoding loses is visible
(the `...Kept` operators of `PlainBodies`): the other languages of a `text`, the segments of
a curve written as a table, the fraction of a gamma in `curv`, the absence of a matrix offset. What
a formula evaluates to when it is sampled is a number of its own. Types:
`XYZ`, `sig`, `dtim`, `meas`, `view`, `cicp`, `sf32`, `uf32`, `ui32`, `ui08`, `data`,
`chrm`, `clro`, `clrt`, `ncl2`, `scrn`, `crdi`, `bfd`, `text`, `desc`, `mluc`, `pseq`,
`psid`, `dict`, `curv`, `para`, `vcgt`, `mft1` (read), `mft2`, `mAB`, `mBA`, `mpet`.

**WholeProfile.** `SavedBytes` is the file of `save_to_mem_in`, byte by byte, with
the type each slot is decided to be written as; `Opened` is `Header::parse` and
`parse_directory` on bytes; `TagAt` is `read_tag_in` without its cache (that is
`Profile`'s). `Tear` shortens the file. `Rebuild` is `build_writable` of
`tests/profile_roundtrip.rs`: a link is linked to where its chain ends, a value is
added again, a tag that does not read is left out. A tag signature is its place in
the list of tags that occur.

**ProfileLut and LinkChain.** What a stage computes is abstracted to the
*encoding* of the numbers it takes and gives: the two 16-bit Lab encodings, 0..1
XYZ, the plain floating-point values of an `mpet` body, device values, the linear
light of a set of colorants. That is what a wrongly chosen, missing or doubled
stage gets wrong, and what two 3-channel widths cannot tell apart. `ReadInputLut`,
`ReadOutputLut` and `ReadDevicelinkLut` follow the readers branch by branch:
named colours, the floating tag, the 16-bit tag with its fallback to perceptual
and the V2/V4 adjustment by the tag's type, the gray and RGB shapers. One action
per kind of leg (`DeviceLinkLeg`, `InputLeg`, `OutputLeg`) is one turn of the
loop of `default_icc_intents`, with reader, conversion and concatenation, any of
which may refuse; `Mismatch` is the check before them. `RemoveMatch` and
`MultiplyMatrices` are one removal each of `pre_optimize`, with the index where
the code leaves it; `NextRule`, `NextPass` and `FinalGuard` end a rule, a pass
and the whole. Two things are choices: whether a conversion layer is empty, a
matrix or an error (black-point detection and adaptation are numeric; equal white
points and full adaptation decide it for absolute intents), and which chain a
caller brings. A product of two matrices counts as the identity when it leads
from an encoding to itself; an offset-free matrix is its two ends.

**BatchedTransform.** A pixel is a colour and its extra samples; converting a
colour is a function of the transform (`Convert`), because the pipeline's
arithmetic does not depend on the loop around it. `StartCall` sizes the workspace
(`prepare_batched`), keeping what an earlier call left in it. One action per
pixel in each of the two loops of a tile, one for the evaluation of the tile, and
`TransformPixel` for the one-pixel loop taken by short calls, gamut-checked
transforms and other evaluators. The 16-bit and the float branch have the same
control and are one action each. The `unique_pixels` slots count from 1.

**FusedRuns.** `Convert` of `BatchedTransform` is here what a pipeline computes by one
evaluator or another. A number is its history: which stages it went through, whether
each took it as a word, as the single- or the double-precision image of a word, or as a
free float, and where it was rounded. That is exact for the question asked: the
evaluators share the stages' arithmetic, so they agree for every table and curve when
the histories agree, and only then. One fact is taken from the code's own test of all
65 536 words (`entry_word_roundtrip_is_identity`): a widened word rounds to itself.
`FuseRun` and `KeepStage` are the two ways through the loop of `split_u16_runs`;
`EvalStage`, `EvalRun` one entry of the plan; `PrepareWorkspace` and `OwnScratch` the two
ways a scratch is sized; a slice out of its bounds is `panicked`. A curve set says which
of its channels are segmented, and one channel is followed, any of two.

**PixelFormats.** A packed pixel is the sequence of its samples, a sample a number
and the unit it counts in (65535ths, 255ths, hundredths of ink, Lab units), so a
missing or doubled scaling shows. The formatter lookup, the unrolled unpackers
and packers with extra samples, swap, rotation, flavour and byte order, the floating
rows and the alpha plan are followed. The reference for a named format is its
name: the letters of `TYPE_*` in order.

**Interpolation.** Words are scaled to `One` = 16 and floats are multiples of 1/8, with
the node positions, wrapping sums, steps and `quick_floor` of the code; the kernels
for one, two, three (tetrahedra) and four inputs and the recursion above. `IsLookUp` is
what a reader of a CLUT hands over (`lut.rs:86-118`: as many entries as the grid says, two
nodes at least along each of several channels). The reference is the weighted mean of the
corners of the cell.

**Cgats and CubeFile.** A text is a sequence of tokens as the lexer makes them; one
action per turn of a parser loop, with every error exit; one action per editing
call; `save_to_mem` gives the text that is then loaded. Words are compared up to
case, and numbers are what `read_real` leaves of them.

## 3. What each run checks

| Run | Instance | Result |
|---|---|---|
| `directory` | up to two entries over five tags and four ranges, chains of three, five kinds of damage; word size 256 | 9 023 states |
| `profile_reads` | five orders of tags × three orders of ranges × seventeen contents, three contexts | 58 862 states |
| `lifecycle` | all tables of up to three slots over four tags (three of them interchangeable) and six values, every link; of four slots, one above the limit, those over two values | 1 441 371 states |
| `tag_resave` | every tag × every type of its row × every body that type can hold; values of 32 types at their limits, at two places of a file, with every shorter size; the built-in profiles and nine others as whole files, cut at 51 places | 58 033 states |
| `link_chain` | all chains of one or two of 25 profiles under seven settings, chains of three under two | 81 916 states |
| `batched` | five transforms, calls of 0 to 5 pixels, tiles of three, threshold two | 208 539 states |
| `kernels` | every pair of `TYPE_*` formats of a colour space, every word of a set of sizes and flags; tables of one to five inputs on grids whose nodes do and do not fall on a word; pipelines of up to three stages of eleven kinds, of four and five of fewer, 8-bit, 16-bit and floating formats, calls of 1 and 5 pixels, chunks of two | 921 952 states |
| `cgats` | texts of one and two tables with every kind of property, column and value, and each with any one token lost or spoilt; one edit, one save; `.cube` files with any keywords | 304 519 states |
| `ragged_width` | the chains of `link_chain` | finding |
| `near_one` | the tables of `kernels` | finding |
| `latin1_text`, `pseq_v2` | the values of `tag_resave` and one more | finding |

**directory**: `TypeOK`; `EntriesInBounds` (every accepted range is inside the
bytes that exist, although the code tests a wrapping sum and clamps the header's
size); `LinksPointBack`; `SearchReachesData` (the bounded chase by signature ends
at an entry with data and the same range); `OneSlotPerBody` (builtin tags over
one body share one cache slot).

**profile_reads**: `SearchSound` (at every hop: same bytes, compatible row, never
stopped by the iteration bound); `CachedTypeIsTrueType` (a value in the cache has
a type the stored body has, so a value never sits under another body's tag);
`BuiltinReadsAreStateless` (whatever was read before, and with whichever
contexts, a read no plug-in has a say in is answered as the first read would be);
`ReaderRefined` (the profile implements `TagReader`).

**lifecycle**: `DirectoryLeadsToBodies` (each layout is where pass 2 wrote that
slot's body); `PassesAgree` (the `debug_assert` of the code);
`NeverSilentlyDifferent` (no read succeeds on both the in-memory and the saved
profile with different values, also with duplicate signatures and links in any
direction); `TrueTypeSurvives`; `SavedProfilesOpen` (a saved profile opens, with every tag in
its place, exactly when its header is acceptable, it has no more tags than the reader's
limit and no signature twice); `ReadableTagsRoundTrip`.

**tag_resave** composes three machines, one of them a behaviour. Of the types:
`ResavedTagStaysReadable`; `ResaveKeepsKind`; `UniformLutsSurvive` (a LUT without
tables of unequal lengths, matrix offset or unequal grid keeps its stages through
any sequence of versions); `SavedCanBeSavedAgain`; `ResaveIsStable` (saving twice
under one version is saving once). Of the bodies: `BodiesReadBack` (a body reads
back as what its type can hold of the value, anywhere in a file, and a second save
loses no more); `CheckedReadsStayInTag` (a reader that looks at the declared size
fails or ends inside it). Of whole files: `ProfilesSurviveTheirFile`, with its
parts `OpensAsItself` (header, directory, links and every value; a file cut short
inside its directory does not open, one cut later lacks tags and never reads as
something else) and `SavedAgainAsItWas` (what was read can be saved, and when every
tag was read the second file is the first, byte for byte). It names what does not come back:
versions above 5.0, a tag added twice, links between tags of different rows,
and the one-row matrix of the NULL profile (section 6). Versions with a
hexadecimal digit are exempt from the last part.

**link_chain**: `EncodingsMeet`, on every state of the walk and between any two
removals: each stage takes its numbers in the encoding the stage before gives
them in, from the encoding of the first profile's space to that of the space the
walk has come to. `InversePairsGone`: a simplified pipeline has no identity and
no pair of inverse PCS conversions left. `WalksAgree`: the entry and exit space a
transform reports are those it was linked from and to, although a second walk
with another direction rule finds them. `LinkingEnds`: the walk and the rewriting
end. The exemptions are each needed, and each is what lcms2 does:

- `EncodingsMeet` is about profiles whose tags connect the spaces of their header
  (`SoundProfiles`), and leaves out readings (`Misread`) that `profile_lut.rs` gets from
  lcms2: a device link's perceptual float tag under an intent that has none of its own,
  taken without normalizers (`:488` on); the Lab *device* side of an `mft2` tag
  when the PCS is XYZ, which is not adjusted; a named-colour profile after
  another, which replaces what came before by an index; and named colours under an XYZ
  PCS, whose list "always uses Lab" (`:188`). The last one no small catalogue had: the
  proof of section 5 asked for it, and the catalogue of the run has had it since.
- `WalksAgree` leaves out named colours (reported as `1CLR`), a first profile whose
  device side is itself a PCS (the second walk takes it in the output direction),
  and an abstract profile between two different PCS (walked by direction, not by
  class).
- `InversePairsGone` leaves out a last pass that merged matrices and then bailed
  out: `multiply_matrix` returns `false` for it (`pipeline/mod.rs:331`), so the loop
  stops although the merge may have brought an inverse pair together. "Loops until
  no rule fires" (`:212`) is true only with that in mind.

**batched**: `SlotsHoldTheirPixels` (the invariant of the tile loop, with stale
workspaces of every earlier size); `RunsEvaluatedOnce` (as many slots as runs of
equal packed pixels, and the buffers suffice); `PixelByPixel` (the batched path
refines `PixelLoop`: each output pixel is its own input's, in order, bytes beyond
the call and extra samples without a plan are left alone); `CallsReturn`.

**kernels**: `ChannelsArrive` (between two named formats every channel arrives where
the output's name says, in its unit; alpha too when copied, otherwise the alpha
there is left alone); `PackUndoesUnpack` (for every word with formatters, but those
that swap and rotate, which the code does not invert and no named format asks for);
`NodesAreExact` (on a node every kernel gives the node's values, and reads nothing
past the last one; words never leave the table, on a node or off it); `MatchesReference` (every kernel gives the weighted mean of the
cell's corners: exactly in floating point, within two units of a word otherwise).
Floating rows that ignore a 16-bit byte-order flag, and inputs `quick_floor` takes for
the node above, are left out: section 6.
`FastPathLosesNothing` ("never changes an output bit versus `Accurate`",
`opt/mod.rs:164-165`: the byte tables, the matrix-shaper, the interpolators chosen in advance
and the runs in words leave every history as it was; and no buffer is too small for a
stage, also for one inside a run). The rule for the edges is what it tests: a run may
begin behind a free float only at tabulated curves, which round by themselves, may not
cross from one curve set to the next, whose numbers are other images of the same words,
and may not end before a stage that takes floats.

**cgats**: `ReloadsAsSaved` (a document the format can carry is itself again after
a save and a load; `PlainTable` names what it cannot carry); `CellsAreTheValues` (as many tables have data as
data sections begin, and each section fills its own table, in order, and nothing else); `CubeLinkIsTheFile` (every number of a `.cube` file is in
the link once, at its row and channel, scaled by the declared domain, the sizes are the
declared ones, and nothing else is in the link);
`LoadingEnds` (every text, damaged or not, ends in a document or an error).

**Bounds, and why they suffice.** The word is 256 or 512 instead of 2^32, with
ranges chosen to wrap, to be clamped, to touch and to overlap: the code has no
other use of the width. Three entries make a chain of two links, the shortest in
which a link leads to a link; the loops treat longer chains the same way, and the
theorems of section 5 cover all lengths. `MaxTableTag` = 3 stands for the code's 100
(`WholeProfile` has the 100 itself), and `MaxSlots` = 4 is one above it: three slots hold a
body, a link to it, and a duplicate or a link to the link; four are saved and refused, for
their number alone, so that `FullTablesAreSimple` (a `CONSTRAINT`) keeps two values of them.
The curve tags differ in nothing, which makes their symmetry sound. A tile of three with calls of five gives a full and a
partial tile, a run across the border between them and runs of every shape inside. Whether
a stage joins a run depends on itself, its neighbours and the run so far, so that five
stages hold every kind of edge on both sides of a run of three. The
walk carries one colour space and the intent's settings from leg to leg, so chains of
three have every leg after every kind of predecessor and successor; the catalogue has
each class, each tag type and each shaper under both PCS, tags that do not read, an
empty pipeline and a tag with wrong widths.

In the bodies, three entries stand for the 256 of an 8-bit or `vcgt` table and the 4096
a curve is sampled at; the code's loops over them have no other use of the number.
Words are below 2^31 (TLC's integers), units below the surrogates, bodies start at
0 or 128, sixteen bytes follow, and a value is saved twice. `Starts` and `Behind`
are enough to tell an offset relative to the tag, to its type base and to the file
apart. `Cuts` are a place in the header, its last byte, the directory's count and every
twenty bytes behind. `One` = 16, `F` = 8 and `R` = 4 keep a word's wrap, a grid
whose nodes fall between words and three fractional bits; `Tolerance` = 2 is the
number of roundings that can add up. `MaxEdits` = `MaxSaves` = 1, `MaxTables` = 4,
`MaxFields` = 3 and `MaxCells` = 8 bound CGATS documents; `SatoiMax` = 9 stands for the
limit of `satoi` and `MaxTables` for the 255 tables of the code; texts of four reach it.

**Symmetry** is not used: instances are small, and most model values play
different parts.

## 4. Fairness and deadlock

Everything but `CallsReturn`, `LinkingEnds` and `LoadingEnds` is a safety property:
the crate has no scheduler and waits for nothing. `FairBatchSpec` assumes weak
fairness of `Running`, the steps of a call that has started, `FairLinkSpec` of the
steps of the walk and of the rewriting, and `FilesSpec` of the turns of the parser's
loops: they are ordinary sequential code on the caller's thread, with no lock, await or
callback. Nothing is assumed of callers: calls need never be made. `batched` and
`link_chain` are checked for deadlock. The others stop where a profile or a text is
rejected or everything asked for was answered, and say so with
`CHECK_DEADLOCK FALSE`.

## 5. What is proved

The proofs hold for every value of the constants that meets the named
assumptions of the modules. They say what the constants are, and little else:

- `DescriptorAssumption`, `DirectoryAssumption`, `ReadAssumption`, `SerializerAssumption`:
  tables are functions, and what stands for "none" is nothing else;
  `FileAssumption`: the files are byte strings with a header.
- `BuiltinWriters`: a writer pads to one or four bytes, as every builtin writer does
  (`profile/serialize.rs`). A plug-in writer may pad to more; that case is a disagreement
  of section 6, and `PassesAgree` is then false.
- `ProfilesAssumption`, `ChainsAssumption`: the tags of a profile are lists of the stages
  their readers build (`IsLutTag`), and a chain has a first profile.
- `LinksAssumption`, `FusedAssumption`: stages are of the four kinds the evaluators tell
  apart (`PipelineStage`), and a tile has a pixel.
- `LookUpsAssumption`, `ScaleAssumption`: a table is one its readers build (`IsLookUp`), words
  and floats have at least three and two values, and a float's unit is a multiple of what
  `quick_floor` rounds to.
- `JobsAssumption`: a packed pixel has its format's samples, and a byte or a word is one.
- `CubeAssumption`: a text is one the lexer makes (`IsText`: a line's end and garbage are
  tokens of their own, a comment reaches to the end of its line, numbers are words that
  have a value), and the two limits on the sizes are numbers.
- `CgatsAssumption`: a document's text is made of tokens (`IsTokens`: a line's end is one
  token, and the file's end none) and its strings of words, whether read or set by a
  caller; the limit on fields and the largest number are numbers; and
  `PREDEFINED_PROPERTIES` does not give `NUMBER_OF_FIELDS` as pairs (`cgats.rs:95`). The
  text may be damaged in any way.
- `TransformAssumption`, `BatchAssumption`: tile and threshold are positive, and calls are
  ones the asserts at `transform.rs:1020` let through.

**Opening** (`Profile_proofs`, first part). `DirInvariant`: `TypeOK`, `EntriesInBounds`,
`LinksPointBack` and `NoTwins` are inductive together. Bounds need the
types; the backward link needs that the link search only ranges over earlier
entries with the same range (`LinkOfIsCandidate`); `KeptInBounds` is the arithmetic
fact: the wrapped sum rejects what lies outside. From it `DirectoryTypeCorrect`,
`AcceptedEntriesInBounds`, `LinksAlwaysPointBack`. `SearchAlwaysReachesData` and
`OneSlotForEveryBody` are about the chase through a whole chain of links, a recursive
function: `ChaseDef` shows that the recursion has a solution, `ChaseStep` unfolds it,
and the chase ends because each step is to an earlier entry. The library's induction
theorems take an operator, which no installed prover can instantiate, so this and
every later induction ranges over a *set of indices* (`IntervalInduction` of `IndexLemmas`,
from well-founded minima).

**Reads** (`Profile_proofs`, second part). `ProfileInvariant`: `DirInv` with `SearchInv` (the running
search is at an entry over the bytes it began at, `at + hops` never exceeds the first
position, so the bound cannot run out), `CacheInv` (each cached value is the
answer *some* context got for a tag with the same row) and `ReplyInv` (what a call was
answered with is what the tag's own entry answers, `Answers`). `BuiltinReadsAreStateless`
alone is not inductive: one must know whose answer sits in the cache. From it
`BuiltinReadsStateless`, `SearchIsSound`, `CacheHoldsTrueTypes`, and
`ProfileImplementsReader`, the refinement of `TagReader`: the last step of a call maps to
the abstract answer, everything before it and every fill of the cache to stuttering.

**Writer** (`Lifecycle_proofs`, first part). `SaverInvariant`: `LaidOut` says of pass 1 that each body
begins where the one before it ended, rounded up (`Continues`), inside what is laid out
(`Placed`); `WriteInv` says of pass 2 that it stands where the next body belongs. The two
meet because a body has the same size from any two positions divisible by four
(`SameSizeAnywhere`): that is where `BuiltinWriters` is used. From it
`SavedDirectoryIsTrue` and `PassesAlwaysAgree`.

**Save and reopen** (`Lifecycle_proofs`, second part). `LifeInvariant` composes the two invariants with
`Reopened`: while the saved file is parsed, the entries are the first slots over the ranges
of their layouts, only `Refusable` profiles fail, and only others get so far. From it `SavedProfilesAlwaysOpen`,
`SavingNeverChangesValues` (with duplicates, and links in any direction),
`TrueTypesSurvive` and `ReadableTagsAlwaysRoundTrip`.

**Linking** (`LinkChain_proofs`). `LinkInvariant`: `EncodingsMeet` and `InversePairsGone`,
with `LinkTypes` (every stage is *honest*: one named `Lab2Xyz` does take Lab and give
XYZ, which the removal rules rely on), `WalkInv` (the walk has come to the colour space the
second walk gives) and `SimplifiedInv` (a pass of `pre_optimize` that has changed nothing
has found no rule to apply). Below it, one lemma per reader of `profile_lut.rs` says that
what it builds connects the encodings of the profile's spaces; `ConnectedConcat` joins
legs; `ConnectedWithout` and `ConnectedProduct` keep a pipeline connected when an identity,
a pair or two matrices go. From it `EncodingsAlwaysMeet`, `NoInversePairLeft`,
`ReportedSpacesAreLinked`.

**Fast evaluators** (`Kernels_proofs`). `FusedInvariant`: `PlanInv` (the plan `Covers` the
stages without a gap, and each of its runs lies between quantization points), `CarriedInv`
(behind each part of the plan the number is the pipeline's, or rounds to the same word where
the pipeline is about to round it, `Carries`), `ScratchInv` (the buffers hold a tile of the
widest stage) and `ResultsInv` (the pixels done so far are the pipeline's). `WordsAlongRun` is the heart:
inside a run, words computed from the rounded number are the words of the number computed
in floats. `Boundary` says why a run may end where the code lets it end. The byte tables and
the matrix-shaper are their own lemmas (`InputLutsAreFirstStage`, `MatShaperIsPipeline`).
From it `FastPathIsLossless`.

**Formats** (`Kernels_proofs`). `PackingUndoesUnpacking` splits into where (`PlacesBack`: reversing,
rotating and repeating are undone place by place) and what (`SampleBack`: a byte made a word
and a byte again, a word's bytes exchanged twice, a flavor reversed twice).

**Interpolation** (`Interpolation_proofs`). `InterpInvariant` says which interpolator an
evaluation has selected and what its result is; `NodesAlwaysExact` is then about the
operators, for any number of channels, any grid and any number of outputs.
`StridesFillTable`: the strides multiply up to the size of the table, so the last nodes of all
channels add up to its last entry. `AxisFacts`, one lemma per kind of axis: the interval
a channel lies in never ends past the last node (for words because `FixedPosition`
never rounds a value below the last up to the last node), and on a node its lower end is the
node and its rest is zero, whichever floor the kernel takes. From the two,
`FurthestInTable`. The recursion over the channels is solved once (`NestedSteps`) and then
followed by induction along its levels: on a node it reads lower ends only (`NestedOnNode`),
and so does the tetrahedron (`TetrahedralOnNode`: what the wrapping sum adds is its rounding
only). `EvalNOnNode` puts the second inside the first.

**Cube files** (`Cgats_proofs`, first part). `CubeInvariant`: what the lexer has passed is accounted
for. Every keyword behind it stands there with all its arguments (`KeywordsWhole`), every
number behind it is one of them until the data is read (`NumbersTaken`), and domain and sizes are
what the last such keywords declare (`Declared`); behind the data nothing is left. The
property speaks of the text without the parser, so the work is in `KeywordRead`, one step
of which moves all three at once, and in `RowTokens`: the three calls of `in_symbol` for a row
return the three tokens next to each other, because a comment is followed by its line's
end (`SameLine`). For the data, the recursion over the rows is solved once
(`RowStartsSteps`), a block read to its end is so many rows one behind the other
(`BlockOfRows`), and counting along them, three numbers of data to a row (`BlockCounted`), is what
`ReadDataInv` turns back into a row and a channel. From it
`CubeLinkAlwaysTheFile`.

**Documents** (`Cgats_proofs`, second part). `CgatsInvariant`: where the lexer stands, every
data section behind it is in the table of its number, and only the last table may be without
data (`Placed`, `Done`). `Between` the sections the tables with data are as many as
sections begun; inside one, `Filling`, the values passed are `r * fields + f`, those of the
rows and columns gone through (`Fills`), each in the cell of its number, and the cells after
are empty. Each handler's step is two facts put together: which tokens it passes
(`Before` then grows by one or not at all), and what it does to the table. Behind a token that cannot be read
nothing is claimed, and no load with one comes to its end. `cook_pointers` may only lengthen a
value, hence the `IsPrefix`. What `save_to_mem` writes is a text again (`WrittenTokens`), so
that the invariant goes through a save and the next load: a saved row has as many labels as
the table was made with, because a count that stands cannot be declared again (`Refused`),
other than by a pair. From it `CellsAlwaysTheValues`.

**Batches** (`BatchedTransform_proofs`). `BatchInv`: `BatchTypeOK`, `SlotsHoldTheirPixels` and
the parts `IdleInv`, `TileInv`, `UnpackInv` (slots are handed out in order and the last
one is the last pixel's) and `PackInv` (the pixel just packed is converted), which is what makes
copying from the pixel before right. From it `BatchTypeCorrect`,
`SlotsAlwaysHoldTheirPixels`; with `RunsInv`, a cardinality that grows along the tile
(`RunStartsGrow`), `RunsAreEvaluatedOnce`; and `BatchedIsPixelByPixel`, the refinement:
`StartCall` maps to `Begin`, `TransformPixel` and `PackPixel` to `ConvertPixel`, `Return`
to `End`, the rest to stuttering.

**Only model-checked**, and why:

- `CallsReturn`, `LinkingEnds`, `LoadingEnds`: liveness under fairness is outside the prover.
- `TagBodies`, `WholeProfile`, `ReloadsAsSaved` of `Cgats`: what a reader makes of every byte
  string, or a parser of all that a writer can write, is an induction over the data itself:
  numbers, names and entries of any length, through folds whose operator is a parameter, which
  is what the library's induction theorems would have to be instantiated with.
- `TagResave` has no constants: its table, its versions and its stage lists are the code's.
  The run is exhaustive, and a theorem would say no more.
- `ChannelsArrive` (for one colour; the code looks at no value, and `PackingUndoesUnpacking`
  is for all).
- `MatchesReference`: off the nodes the number of roundings grows with the channels, and
  two units of a word are enough for the kernels and scales of the run, not for every one.

## 6. Disagreements between the code and its documentation

With a run:

1. **`ragged_width`**: `insert_stage_at_end` leaves `output_channels` alone, so
   `read_mpe`'s check that "the declared channel counts match the assembled
   pipeline's" (`types/mpe.rs:315-316`) compares the output count with itself.
   `concat` takes the declared count over as "last stage's output"
   (`pipeline/mod.rs:182-183`), and the final guard of the walk looks at that.
2. **`near_one`**: `eval_4_inputs_float` and the kernels above it take their base node
   from `quick_floor`, which rounds: just below 1.0 the base is the last node and the
   second sub-cube starts past the table. Of the same place in `bilinear_float` the code
   says "tintbox must stay in bounds, so cap the per-axis base indices"
   (`interp.rs:708-713`).
3. **`pseq_v2`**: "there is no need to consume" the script block of a description
   (`types/mlu.rs:230-231`), but a profile sequence embeds two of them one after the
   other: what `write_pseq` writes under version 2, its reader refuses.
4. **`latin1_text`**: a code unit below 0xFF becomes "that byte" (`profile/tag.rs:324-326`);
   the writers of `text` and `desc` write it as UTF-8, two bytes, and the text grows on
   each save.

Seen while modelling, without a run:

- `read_tag` consults "no registry" (`profile/mod.rs:197-198`), but the cache is looked at
  first (`:225`): after a `read_tag_in` with a plug-in it returns the plug-in's value.
- `read_tag_raw` "includes the 8-byte type base" (`mod.rs:158-159`); for a profile of
  `from_writable` it returns `Ok` of no bytes.
- "profileDescriptionML … is always mluc" (`serialize.rs:504`); it is written as text,
  which its row does not allow, and does not read back.
- `write_lut16` declares one length for tables of several, and drops a matrix's offset,
  although the writers are "the byte-exact inverse" (`serialize.rs:1`).
- The float normalizers "never merge" (`pipeline/mod.rs:291-294`); those for XYZ are plain
  matrices and do.
- The two passes of the writer show positions from different origins to plug-in writers
  (`plugin.rs:103`): one that pads to more than four bytes makes the sizes disagree.
- The NULL profile's `B2A0` (`virtuals.rs:403`) has a matrix of one row: it is written as
  four numbers, while `read_matrix` always reads twelve, so the tag that "always returns
  black" does not read back from the saved file.
- The note at `virtuals.rs:193-201` has the Lab and XYZ built-ins "always serialized and
  reparsed before linking"; `gamut/tac.rs:155`, `gamut/check.rs:236`, `link/black_point.rs:441` and
  `ps.rs:1148` link them in memory, where the identity curves are not marked as such.
- A version of 3.10 (`0x03A00000`) makes the writer choose the types of version 4 and is
  read back as 3.9 (`header.rs:321`, `serialize.rs:382`).
- The floating rows ignore `ENDIAN16` (`format/mod.rs:235`, `float.rs:78`).
- `extra_offsets` with `SWAPFIRST` and two or more extra samples (`format/alpha.rs`) puts
  them elsewhere than the unpackers do.
- `resolve_interp_in` (`pipeline/clut.rs`) discards a factory's `CustomInterp::Builtin`, which
  `interp.rs` documents as a choice of kernel.
- `parse_cube` takes a lexical error for the end of the file (`cgats.rs`): a damaged file whose
  data is complete up to there is a link.
- "Fuse every maximal run" of stages between quantization points (`opt/batched.rs:885`):
  a run that, extended as far as it goes, does not end at one is given up whole, although a
  shorter one would: of CLUT, segmented curves, matrix the CLUT stays unfused. No output
  depends on it.
- A CGATS table with values but no columns (`NUMBER_OF_SETS 2`, and one word as data) loads,
  because each word counts as a row (`cgats.rs:1176-1203`); it is saved as an empty data
  section, which `load_from_mem` refuses (`cgats.rs:1200`).
- A `set_data` that is refused for its row or column allocates the data set of a table that
  has none all the same (`cgats.rs:1109`).
- An `mluc` entry with an empty text reads back as one NUL character.
- `transform.rs:1210` subtracts one from the number of profiles, which underflows for an
  empty chain with a gamut profile; `transform.rs:1220` builds the gamut check from the
  caller's intents and the link from rewritten ones.

## 7. What is not modelled, and the plan

**Not modelled.** Arithmetic that the repository's differential tests compare bit for bit
with lcms2: building, joining and inverting tone curves, matrix and fixed-point kernels,
colour appearance, white points, black-point estimation, the gamut geometry, and the
tables the optimizers compute. PostScript text. The 8-bit LUT writer, which no decider
picks. Opening real files. The crate's error type and re-exports, and the test oracle.

**Partly modelled.** Transforms: the proofing and gamut constructors and the flat-buffer
calls are left. Pipelines: evaluation is arithmetic, but for CLUTs. Plug-ins: the curve,
intent, interpolator and optimizer registries are left.

**Order of work**, the most important first:

1. Opening, reading and the cache; the writer; the save/reopen cycle; re-saving and type
   choice; the batched pixel loop and its fused runs; the link chain; pixel formats and interpolators; CGATS
   and cube files; tag bodies; headers, built-in profiles and whole files: done.
2. **Transform constructors**: `new_extended`, proofing and gamut check; the order of the
   optimizers of `Lcms2Compat`.
3. The gray-component and ink-limit walks of `gamut/`; the optimizer and intent registries.
4. Proofs: `MatchesReference` in floating point, for every table and grid;
   `ChannelsArrive` for every colour.
