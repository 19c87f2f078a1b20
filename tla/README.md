# A formal model of infinity-factory

Infinity Factory builds, tests and publishes *media URL resolver* plugins: WebAssembly
components that turn the address of a public post, clip or track into the addresses of the media
behind it. This directory models what the repository's own code does — the plugins' resolve calls,
the SDK they are built on, the host that tests them and the commands that package and release
them — as TLA+ modules, checks them with TLC on small instances, and proves the most important
results with TLAPS for every value of the constants.

File names below are relative to the repository's root.

## 1. The system

| Component | Source | State it keeps | Operations | What makes it correct |
|---|---|---|---|---|
| Fixture engine | `tools/bex-test-host/src/fixture.rs` | queue of expected exchanges, index, transcript | `new`, `send`, `finish` | replays the script in order; a failed call moves nothing; a clean finish means the whole script was replayed; the transcript shows no value |
| Facebook plugin | `plugins/facebook/src` | one call: page, `fb_dtsg` secret, response | `resolve` | secret wiped on every path; second call only as a last resort; candidates safe, distinct, in order, bounded |
| Instagram plugin | `plugins/instagram/src` | one call: page, `lsd` token, relay item, response | `resolve` | token wiped on every path; a refusal is not overruled by the relay item; carousels whole or not at all |
| YouTube plugin | `plugins/youtube/src` | one call: page, selected formats, cipher operations, response | `resolve`, `extract_cipher_ops`, `decode_signature_url` | best formats delivered, in order; the player script fetched only when needed; the operations are the player's own or none |
| X, TikTok, Bandcamp plugins | `plugins/{x,tiktok,bandcamp}/src` | one call, one fetch | `resolve` | filters, ranking, bounds and (Bandcamp) identifier width and expiry applied in the right order |
| direct-url plugin, SDK v1 | `plugins/direct-url/src`, `sdk/bex-media-url-resolver` | none | `resolve` | returns a fixed URL |
| SDK v2 | `sdk/bex-media-url-resolver-v2/src/{lib,resolver}.rs` | the ephemeral secrets | `WasmHttpsClient` calls, `checked_response`, `validate_response` | nothing ill-formed leaves or enters a plugin |
| SDK v2 mock client | `sdk/bex-media-url-resolver-v2/src/mock.rs` | queue, observations, mismatch flag | the three calls, `verify` | each call answered from its own position; `verify` passes only for an exact replay |
| `stage-release` | `tools/factory-validator/src/lib.rs` 256–332 | release directory, packages checked so far | `stage_release_assets` | all is checked before anything is replaced; the catalog vouches for the files beside it |
| `pack-all` | `tools/factory-validator/src/{lib,revision}.rs` | output directory, index entries | `pack_all`, `pack`, revision table | the index describes the files; packages are of the revision they declare; same input, same output |
| Contract and fixture validators | `tools/factory-validator/src/lib.rs` | none | `validate_contract`, `validate_fixture` | pure checks of documents |
| bex-test-host CLI | `tools/bex-test-host/src/{package,contracts,output,main}.rs` | none between runs | `run` | archive bounds, policy checks around the fixture engine |
| Release workflow | `.github/workflows/release.yml`, `scripts/*.sh` | GitHub release, draft, tag | check, build, stage, publish | one complete release per tag, never changed, whatever runs overlap or die |

How they interact. An app (or, in tests, the fixture engine or the mock client) calls a plugin's
`resolve`. The plugin classifies the source URL, and calls the host through the SDK's
`WasmHttpsClient`, which validates the request, and passes every answer through
`checked_response` before the plugin sees it. What the plugin builds passes `validate_response`
before it leaves. The plugins hold no state between calls. `pack-all` packages the built
components; `stage-release` copies the tracked packages the catalog binds into a release directory
that the release workflow publishes. Runs of the workflow share nothing but GitHub's releases.

What is hard here: the host may answer any call in any way, so every plugin is a sequence of
decisions over adversarial answers in which an early return must still wipe a secret and classify
the error; the order of filter, de-duplication, ranking and truncation decides what is lost; the
test hosts must stay in step with a guest that misbehaves; the two file commands read their
sources twice and replace a directory file by file, beside builds and edits, with kills anywhere;
nothing serialises two runs of the release workflow; and YouTube's operations are guessed from
minified text by four strategies, one of which solves for a number it cannot see.
The full list, line by line, is `hazards` in `PROJECT.json`.

## 2. The modules

| Module | Models | Extends / instantiates |
|---|---|---|
| `ScriptedHost` | abstract: what a scripted host promises (position in the script, last answer) | – |
| `FixtureEngine` | `FixtureEngine::{new,send,finish}` with matching, sanitising and observing | instantiates `ScriptedHost` |
| `MockClient` | `MockHttpsClient`: queue, observations, sticky mismatch, `verify` | – |
| `TestHostProofs` | proofs about both | `FixtureEngine`, `MockClient`, TLAPS |
| `Lists` | the loops over lists that the components share: filter, first of those that clash, stable sort, prefix | – |
| `FoldLemmas` | proofs: what those loops return, for lists of every length | `Lists`, TLAPS |
| `ResolveContract` | abstract: what one resolve call promises its host | – |
| `SdkHttps` | the response gate, the shared error tables, the final validator | – |
| `FacebookSession` | one Facebook resolve call | `SdkHttps`, instantiates `ResolveContract` |
| `FacebookSessionProofs` | proofs | `FacebookSession`, `FoldLemmas` |
| `InstagramSession` | one Instagram resolve call | `SdkHttps`, instantiates `ResolveContract` |
| `InstagramSessionProofs` | proofs | `InstagramSession`, TLAPS |
| `YouTubeSession` | one YouTube resolve call | `SdkHttps`, `Lists`; instantiates `ResolveContract` |
| `YouTubeCipher` | `cipher.rs`: the search for the player's operations and the signing of a URL | `Lists` |
| `YouTubeProofs` | proofs about both | `YouTubeSession`, `YouTubeCipher`, `FoldLemmas` |
| `MediaAnswer` | what the three single-fetch plugins build, and the checks they share | – |
| `XPayload`, `TikTokPayload`, `BandcampPayload` | what each of them makes of a page it fetched | `MediaAnswer`, `Lists` |
| `SingleFetch` | one resolve call of X, TikTok or Bandcamp | the three payloads, `SdkHttps`; instantiates `ResolveContract` |
| `SingleFetchProofs` | proofs | `SingleFetch`, `FoldLemmas` |
| `StageRelease` | `stage-release` with its sources and its reruns | – |
| `StageReleaseProofs` | proofs | `StageRelease`, TLAPS |
| `PackAll` | `pack-all`, the ABI revision table and a build beside it | `Lists` |
| `OneRelease` | abstract: what the release workflow promises the clients of a tag | – |
| `ReleasePipeline` | `release.yml`, its scripts, and gh and GitHub as it uses them | instantiates `OneRelease` |
| `ReleaseProofs` | proofs about it and `PackAll` | `ReleasePipeline`, `PackAll`, `FoldLemmas` |
| `MC…` | the finite instance of each, with its `.cfg` | the module it instantiates |

`PROJECT.json` maps every definition to the lines it translates. Modules that one proof module
extends together give their state and their specification names of their own (`PackSpec`,
`CipherSpec`, `MockSpec`). Definitions whose name contains a
deviation (`SendUnexpectedRewinds`, `CollectTruncatesFirst`, …) and whose comment says *seeded bug*
are not used by any specification: they are the mutants by which each property was shown to be
falsifiable.

### Conventions

Parsing, URL grammar, HTML scanning and JSON search are abstracted to the cases that decide
control: a page is a record of what the scan finds in it, a URL is a value that is safe or not, an
answer of the host is an error or a response with status, final URL family, header and size
verdicts and a body. Each abstraction is stated in a comment at its definition. What is *not*
abstracted is the order of guards, early returns and side effects. A loop over a list is a fold
(`Lists`): an iterator chain that filters, a `for` loop that skips what it has seen and stops at a
bound, a stable `sort_by`, a `truncate`. The test such a loop makes is given as the set of the
elements that pass it.

**Fixture engine.** `pending`, `next_index` and `observations` are the struct's fields; `script`
and `result` are history variables. `send` is three actions (match, mismatch, nothing expected),
`finish` two. `FirstMismatch` keeps the code's comparison order, which matters because the
coordinate is reported.

**Mock client.** `get`, `post_public_graphql` and `post_tahoe` differ in the fields they compare;
the compared fields are one value, except the secret, of which only the length is compared.
`Accept` and `Reject` are the two arms of each `match`; both take the front of the queue.

**The sessions.** `pc` is the place in `resolve_public`, `calls` the history of host calls and
answers, `secret` the holder of the ephemeral secret (`none`, `ephemeral`, `call`, `wiped`),
`response` what the plugin built and `outcome` what `resolve` returned. Sending a request and
receiving its answer are two actions, as the guest is suspended between them. Each error path is
an action or a disjunct, with the plugin's own error table. In `YouTubeSession` the cipher enters
as what its operations make of each ciphered format (a URL, or garbage); how they are found, and
what they do, is `YouTubeCipher`.

**Single fetch.** X, TikTok and Bandcamp make one GET and have no secret, so they share one
session, `plugin` says whose tables it uses. What differs is what each reads out of its page:
`XPayload` (renditions of the first attachment with video, ranked by bit rate, then deduplicated
by URL and by id), `TikTokPayload` (two script blocks, four address lists, the CDN filter) and
`BandcampPayload` (entity decoding, identifiers that wrap as `as i64` does, expiry markers
corroborated by a token). `clock` ticks at any time; `now` is what Bandcamp read before its fetch.

**YouTube's cipher.** A player script is a record of what the scanners find: pools of words,
object literals, dispatch sites `helper[pool[ident^konst]](..)`, the split–join function, `h[]`.
A method carries, beside what the classifiers see of its text, what it *does*, and an identifier
what it *holds* at run time: the plugin sees neither, the properties compare its answer with both.
`TryStrategy` is one of the four extractors in their order; where the code iterates a `HashMap`
(the majority identifier) the outcome is a choice. Integers are `Words` wide; `Xor` is a constant
operator, of which the proofs use no more than `XorAssumption` and `XorIsAssociative`.

**Release workflow.** `pc` is the step a run is at; a failing step ends it (`set -e`). gh and
GitHub are external, modelled from the one use the workflow makes of them: `gh release create`
makes a draft, uploads the assets in any order, publishes the draft, and takes it back if one of
these fails; GitHub refuses to publish a tag twice; `gh release view` sees drafts. Faults are a
failing request or tool, an error of `view` (taken for absence, as `if gh release view` does) and
a run killed at any step, whose draft stays.

**stage-release.** Reading a package and validating its archive are two steps, since the code
opens the file twice. The directory is emptied file by file in any order, removed, created, and
filled in catalog order, catalog last. `Stop` is an I/O error or a kill at any step; a write cut
off leaves a torn file. `Repack` and `EditCatalog` change the sources at any moment; `Rerun` starts
the command again. Size and SHA-256 are taken as the content itself: collisions are not modelled.

**pack-all.** `ReadManifest`, `ReadComponent`, `Pack`, `RecordEntry` are the steps of one loop
round, in whatever order the directories are listed; `Pack` reads manifest and component again.
`EditManifest` and `Rebuild` are the build or editor beside the command. Revisions, accepted
policies and the interface comparison are those of `revision.rs`.

## 3. The runs

| Run | Distinct states | Question | Properties |
|---|---|---|---|
| `fixture_engine` | 13,064 | Does the engine stay in step with any guest? | `TypeOK`, `TranscriptAndQueueSplitScript`, `TranscriptHidesValues`, `ImplementsScriptedHost` |
| `mock_client` | 91,605 | What does a passing `verify` prove? | `MockTypeOK`, `AnsweredByPosition`, `VerifyMeansReplayed` |
| `facebook_session` | 1,707 | Is every way through the call right, whatever the host answers? | `TypeOK`, `SecretDiesWithItsCall`, `AnswerMatchesOffer`, `TahoeIsLastResort`, `KeepsResolveContract` |
| `instagram_session` | 6,143 | the same, with the relay fallback | `TypeOK`, `TokenDiesWithItsCall`, `RefusalIsFinal`, `CarouselIsWhole`, `KeepsResolveContract` |
| `youtube_session` | 4,997 | the same, with ranking and the player script | `TypeOK`, `DeliversTheBest`, `PlayerOnlyForACipher`, `KeepsResolveContract` |
| `stage_release` | 256,737 | What may be found in the release directory, ever? | `TypeOK`, `StagedExactly`, `CatalogVouches`, `VerifiedBeforeErased` |
| `pack_all` | 226,088 | What may be found in the output directory, ever? | `PackTypeOK`, `IndexBindsAssets`, `PackedAsDeclared`, `Reproducible` |
| `single_fetch` | 21,798 | What do X, TikTok and Bandcamp take of any page, and how do they fail? | `TypeOK`, `XTakesTheBest`, `TikTokKeepsThePage`, `BandcampPlaysTheCurrentTrack`, `KeepsResolveContract` |
| `youtube_cipher` | 8,385 | Which operations are found in a player script, and is the signature right? | `CipherTypeOK`, `NeverGuesses`, `PlaysTheRealSignature` |
| `release_pipeline` | 87,990 | What becomes public, and is a tag released in the end? | `TypeOK`, `PublishesOnce`, `EventuallyReleased` |
| `single_fetch_title` | – | Does Bandcamp deliver the title of the page, as the comment on `decode_entities` says? | `TitleSurvives` (violated) |
| `pack_all_collision` | – | Is a plugin's package independent of the others, as the comment on `pack_all` says? | `PackedIndependently` (violated) |

`KeepsResolveContract` is a refinement: `Contract!Spec` of `ResolveContract`, under the mapping
that forgets everything but which calls were made, how each answer counts and what came out. How
an answer counts (`AnswerClass`) is written independently of the plugins' error tables, so that
the tables are checked and not assumed. `ImplementsScriptedHost` and `PublishesOnce` are
refinements likewise, of `ScriptedHost` and `OneRelease`.

What the deeper properties say:

* `TranscriptHidesValues`: an exchange leaves the same observation as one with other values of the
  same length, another query, other names where a name is unsafe and another URL where its origin
  is not canonical.
* `XTakesTheBest`: the answer is of the first attachment with video; the best bit rate leads; a
  rendition is missing only if a delivered one, at least as good, has its URL or its id.
* `TikTokKeepsThePage`: of the page's lists, each taken up to its own bound, every CDN address is
  delivered once, in the page's order, with only the last ones cut off; a block that refuses the
  item is never overruled by the other.
* `BandcampPlaysTheCurrentTrack`: the streams are those of the one track whose identifier equals
  the current one modulo the width of the integer, each that was alive when the call began.
* `NeverGuesses`: operations of the packed strategy are those of *one* dispatcher, call by call as
  the script would run them, also when the base is beyond the search, has a second solution, or
  two dispatchers are equally frequent.
* `PlaysTheRealSignature`: for a *regular* player of any generation (the predicates `Regular…`
  spell out what the module's comments and fixtures take for granted) the signed URL carries the
  signature the script itself computes; how JavaScript runs the calls is defined apart (`Run`).
* `EventuallyReleased`: runs that refuse because they see each other's drafts cannot all refuse;
  without a fault the tag is released, and a fault of an earlier run that left no draft does not
  stop a later one.

### Bounds, and why they are enough

* `fixture_engine`: every script of 0–3 exchanges out of six; requests differ from a base request
  in exactly one coordinate each, so each branch of the comparison decides somewhere. Three
  exchanges give an empty, a last and a middle position. Calls are not bounded.
* `mock_client`: queues of 0–2 calls and `MaxCalls = 3`, one more than the longest queue, so that a
  surplus call follows every history.
* Sessions: `Candidates = 2` (the code's bound is 16) against three safe URLs, so that truncation
  happens; duplicates and unsafe URLs stand before, between and after good ones. Facebook pages
  have up to two blocks, which is what the "first block with the key decides" rule needs.
  Instagram carousels have 0–3 children. YouTube arrays have up to four formats against
  `MaxFormats = 3` (the code's: 64), so the "too many" rejection happens. Host answers include every
  error, each class of status with its edges (99, 100, 599, 600), a foreign but admitted final
  URL, one that is not admitted, bad headers and an oversized body.
* `stage_release`: `MaxRuns = 3` (a release, a run that breaks something, a run that must
  recover) and `MaxEdits = 2` (a package and the catalog, or a package twice). Catalogs of one and
  two entries, with each defect the code looks for.
* `pack_all`: two directories (both listing orders), `MaxEdits = 1` (one change in any window),
  three targets as in the code. Components of each revision and of both, one that exports the
  resolver package in an unknown version as well, one cut off behind its header (which the second
  check, of the header alone, lets pass) and a file that is no component.

* `single_fetch`: every bound of sixteen is three (two for X's attachments), TikTok's list cap four,
  titles four bytes, identifiers three bits, so that each limit is reached and passed and an
  identifier wraps; the clock has three seconds, so that a stream expires before, at and after the
  reading. Pages vary one part at a time around a good page, except lists, which are enumerated.
* `youtube_cipher`: four-bit integers and bases below 8, so that a base can be out of range, and
  pools of six and eight words, so that it can have a second solution. Players of each generation
  with literal, masked, foreign and unreadable arguments, rival dispatchers, a repeated pool word,
  two pools, odd methods; five blobs.
* `release_pipeline`: three runs (two rivals, and one that comes after them or is of another tag),
  a tag with `v` and one without, a commit that passes and one that does not, a fault in each run.

`CHECK_DEADLOCK FALSE` appears where the modelled world may rest: `stage_release` after its last
run, `pack_all` after its only run, `mock_client` when the test has made its calls,
`release_pipeline` when its runs have ended. The other
specifications either never stop or end in an explicit `Terminated` step.

### Fairness

`ReleasePipeline` assumes `WF_vars(JobStep(r))` for each run: a runner goes on with the job it has
taken. That is what GitHub provides, which executes the steps of a job one after the other and
ends one that hangs at its time limit (a fault, in the model). Nothing is assumed of `Start` (no
one has to push a tag), of faults or of kills, and no step is strongly fair.

No other specification assumes fairness. Nothing else in this code waits except a resolve call for
its host, and nothing in this repository obliges the host to answer; the two file commands may be
killed at any step. A claim such as "every resolve call ends" would state the assumption.

## 4. What is proved

All theorems hold for every value of the constants allowed by the named assumptions of their
module (what the data sets contain, never how large they are). Of the properties that the passing
runs check, one is not stated by a theorem (end of this section).

### Loops over lists

Most of what a plugin delivers is the result of a loop over a list of any length: filtered,
deduplicated, sorted, cut off. **`FoldLemmas`** proves once what each of the loops of `Lists`
returns. A fold is shown to be a loop, that is a function `after` from places to what has been
accumulated (`FoldExists`, `FoldIsLoop`), by taking a least place at which something would go
wrong; from there each lemma is about an invariant of the loop:

* `SieveLoop`, `OnlyLoop`: what is kept stands at increasing places of the list, each of them
  passes, and what passes is kept unless it clashes with something kept before it or there is no
  room (`SieveFirst`, `SieveRoom`).
* `OnlyAll`, `OnlyAgrees`: a filter that all elements pass changes nothing, and lists that differ
  in elements that fail only are filtered alike.
* `StableSorts`, `SortedElements`, `SortedFirst`: a stable sort is a permutation, in order, and its
  first elements are the best ones.
* `FlattenTyped`, `FirstElements`, `JoinedElements`, `MapTyped`: lists of lists, prefixes, joins.

### The sessions

* **`FacebookSessionProofs`** — `TypeCorrect`, `SecretDies`, `DeliversTheOffer`, `TahoeComesLast`,
  `KeepsContract`. The inductive invariant relates `pc` to the number of calls, to which of them
  are answered and usable, and to the holder of the secret. For `DeliversTheOffer` a second
  invariant (`Provenance`) says that a response under validation, or returned, is faithful to what
  the answers so far offer, and that Tahoe is asked on behalf of a page with good tokens only; the
  rest is that `collect_one`, folded over the offers, keeps each safe URL at its first place.
* **`InstagramSessionProofs`** — `TypeCorrect`, `TokenDies`, `RefusalStands`, `CarouselHolds`,
  `KeepsContract`. The inductive invariant has three named parts besides `TypeOK`: `Conversation`
  (what was asked at each point, and how it was answered), `Custody` (who holds the token) and
  `Provenance` (a response was mapped from the GraphQL item, or from the relay item after an
  answer that allows the fallback). `CarouselHolds` needs no fold: the mapping of a carousel is a
  function of the position.
* **`SingleFetchProofs`** — `TypeCorrect`, `XDeliversTheBest`, `TikTokDeliversThePage`,
  `BandcampDeliversTheTrack`, `KeepsContract`. The invariant is small (the reply is pending until
  it is awaited, and a response was built from a fetched page only). For the contract the content
  is in the lemma that each plugin's tables, behind the gate, agree with the contract's independent
  reading of every answer; for what is delivered it is in the loops: X sorts, then drops what
  repeats, so what is dropped is no better than what it repeats; TikTok's list is the page's with
  everything but the first of each address taken out; Bandcamp's `as i64` compares identifiers
  modulo the width.
* **`YouTubeProofs`**, first part — `TypeCorrect`, `BestIsDelivered`, `PlayerIsNeeded`,
  `KeepsContract`. The invariant is Instagram's without a secret; a response is the `map` of the
  page. `BestIsDelivered` combines the filter, the sort and the prefix: a format left out stands
  behind all that are delivered.

### YouTube's cipher

* **`YouTubeProofs`**, second part — `CipherTypeCorrect`: whatever the script, each of the four
  strategies answers operations of a known kind with an index the machine can hold, every
  operation leaves a signature a signature, and the signed URL is a list of query pairs.
* `PackedNeverGuesses`. The heart is `BaseIsTheRunTimeOne`: if every call of a dispatcher works at
  run time and the search settles on a base, that base is the one the identifier holds. A run-time
  base below the bound is a solution, and the search insists on exactly one; a run-time base above
  the bound sets a bit in every constant that no smaller base can clear, so no solution exists and
  the strategy fails. Here the assumptions count: `XorAssumption` (closed, commutative,
  self-inverse, and a bound that is a power of two) and `ScriptAssumption` (no pool is longer than
  the search bound, keys of an object literal are distinct).
* `RealSignaturePlayed`. For a regular player of any generation the plugin signs as the script
  would, in four steps:
  1. *No second base* (`OnlyTheRealBase`). The helper has three methods, whose keys stand at three
     places of the pool, and the script's calls reach all of them. A base other than the run-time
     one would carry each place to another of the three, and back again (`XorSwaps`, which is what
     `XorIsAssociative` is for); but three places cannot be paired. So a regular dispatcher is
     never refused for having two solutions.
  2. *The right strategy* (`OwnStrategy`). The ones tried before it find nothing, and what it
     finds are the calls that the script performs, one by one (`Matches`).
  3. *The same signature* (`DeciphersAsRun`). Both interpreters are loops over lists of the same
     length. After each call they hold the same, unless JavaScript has spliced the signature away;
     once it has, nothing brings it back, and the property excepts that case.
  4. *The same URL* (`SignedUrl`). What is set is set everywhere and once at least; the rest is
     compared by filtering both queries (`OnlyAgrees`); the rate bypass is added without touching
     the signature, or is the key it is signed under.

  The invariant (`SignatureInv`) says that while nothing has been found in a regular player, its
  own strategy is still to come (so the search cannot fail), that what has been found are its
  calls, and that the URL is what `decode_signature_url` made of them. TLC checked it on the
  instance of `youtube_cipher` first. `AbsentAssumption` says that Rust's `None` is no list.

### The test hosts

* **`TestHostProofs`**, of the fixture engine — `TypeCorrect`, `SplitCorrect`, `AdvanceCorrect`,
  `FinishCorrect`, `TranscriptCorrect`, `Refinement`. The inductive invariant is `TypeOK` with
  `TranscriptAndQueueSplitScript`: without the split, the front of the queue could not be shown to
  be `script[next_index + 1]`, nor the length of the transcript to be the abstract position. The
  other results follow from it and from the lemma that `FirstMismatch` finds nothing exactly when
  two requests are equal. `TranscriptCorrect` adds that an observation of an exchange equals that
  of the blanked exchange, field by field. `FinishCorrect` says that `finish` accepts exactly when
  the whole script has been replayed, and what it reports otherwise; it does not say that nothing
  else was sent, for `finish` looks at the queue alone and accepts a guest that mismatched or sent
  too much on the way. `AdvanceCorrect` and `FinishCorrect` are proved only, no
  run checks them (their hazards are covered by the refinement). `Refinement` maps each action to a
  step of `ScriptedHost` or a stutter.
* Of the mock client — `MockTypeCorrect`, `MockAnsweredCorrect`, `MockVerifyCorrect`. The queue
  does not tell which position comes next, so the invariant `MockQueue` ties it to the number of
  calls made (what is left is the script past that point, or nothing), and `MockFlag` ties the
  sticky flag to the calls made. `MockVerifyCorrect` follows: an empty queue says enough calls, an
  unset flag says no call too many and each in its place.

### Packaging and release

* **`StageReleaseProofs`** — `TypeCorrect`, `StagedExactlyHolds`, `CatalogVouchesHolds`,
  `VerifiedBeforeErasedHolds`. The invariant says what of the catalog has been checked
  (`assets` is a matching prefix), that the names in it are distinct, and what the directory holds
  in each phase of replacing it; distinctness is what makes an earlier file survive the writing of
  a later one.
* **`ReleaseProofs`**, of `pack-all` — `PackTypeCorrect` and `DeclaresItsRevision` hold of every
  repository. The invariant of the second (`DeclaredInv`) says that what is held between the check
  and the packing is still what the sources say, unless they shifted. `BindsAssets`,
  `PacksIndependently` and `IndexReproduced` carry a hypothesis, `NamesDiffer`: manifests of
  different directories have asset names of their own. The repository's have; the command does not
  check it, and without it the run `pack_all_collision` finds the promise of the comment on
  `pack_all` broken. `BoundInv` says that the output holds exactly the packages recorded so far and
  the one being recorded, `DueInv` that while nothing has changed the entries are those due for the
  directories that have been read; that the index comes out in order of id is the stable sort of
  entries whose ids differ. TLC checked the three invariants on the instance of `pack_all` first.
* **`ReleaseProofs`**, of the workflow — `TypeCorrect`, `PublishesOnceHolds`. The invariant says
  which runs have a draft and that it holds only what its commit ships, that a run past the checks
  is of a releasable commit and a tag with `v`, and that a run at `publish` has uploaded all:
  `Publish` is then a step of `OneRelease`, and every other step a stutter.

### Only model-checked

* `EventuallyReleased`: liveness under fairness is out of the prover's reach.

## 5. What the work found

Two comments are contradicted by a run, and ten statements of the documentation by the source
(each quoted in `findings`):

* Bandcamp's `decode_entities` turns each byte of a character outside ASCII into a character of
  its own: titles are delivered garbled, and a long one refuses the track (`single_fetch_title`).
* `pack_all` does not keep plugins independent when two ids end in the same segment: the later
  one overwrites the earlier package, whose recorded digest is then of bytes that are gone
  (`pack_all_collision`). The ids in the repository do not collide.
* Bandcamp is documented as not registered and not built in two READMEs; it is both.
* Facebook's comment says the generic gate is not applied and would reject its responses; the
  gate is applied to every response in the wasm build, and admits them.
* The build script is documented to write `dist/`; it writes elsewhere by default.
* Bandcamp's final page is documented to stay in its page family; any platform's page passes.
* YouTube's player response is documented to be unique, and other query parameters to be rejected;
  the code takes the first and ignores the others. The doc of `eval_arg` speaks of the same base;
  the code never looks at the identifier.
* X's doc says that 429 alone is worth retrying; 5xx is retried too. TikTok's doc names one script
  block; the code falls back to a second.

Three further observations from the modelling:

* `compatibility/media-url-resolver-v2-bandcamp-host-contract.md:24` says that the track whose `id`
  matches is taken and that candidates are *capped* to 16; the code compares `track_id` first and
  refuses a track of more than 16 files.
* A workflow run that is killed while it uploads leaves a draft, which every later run for the tag
  takes for a release: someone has to delete it. `EventuallyReleased` says what remains true.
* A splice beyond the end of a signature empties it in JavaScript; `CipherOps::decipher` leaves it
  as it is. No real player does this, and `PlaysTheRealSignature` excludes it by name.

## 6. Not modelled, and why

* URL grammars, HTML and JSON scanners at character level, and X's token arithmetic: pure functions
  over strings, better covered by the unit tests beside them.
* `validate_contract`, `validate_fixture` and bex-test-host's package reader, contracts, output
  and CLI: one pass over one document or archive, no state and no interaction.
* `direct-url` and SDK v1: one constant answer and its validator.
* `ci.yml`: runs the same scripts as `release.yml` and publishes nothing.
* Of the release: a publication whose response is lost (gh would report a failure of what
  succeeded), the tag that gh creates when a run is started by hand for one that does not exist,
  and a `--target` that GitHub ignores for a tag that does: in that case the release is of the
  commit that was built, under a tag that points elsewhere.
* SHA-256, ZIP, the WASM parser, the file system's own guarantees: external.
* The app that calls the plugins and the host that makes the requests are not in this repository;
  they appear only as nondeterministic answers.

## 7. Plan for what is left

In this order:

1. `YouTubeSession` composed with `YouTubeCipher`, so that a format's signing is the module's and
   not a value.
2. The request side of the SDK's gate (`validate_public_graphql`, `validate_tahoe`, header and body
   rules) as a table over abstract requests, with the three clients that meet it.
3. The archive bounds of bex-test-host's package reader at their limits.
