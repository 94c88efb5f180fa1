# A verification of jsonschema2go

jsonschema2go reads JSON schemas and writes Go source: a type for every schema,
with `Validate` methods and (un)marshalling. This directory holds TLA+ modules
that model the generator, and the code it generates, from the source in `src/`;
TLC configurations that check them; and proofs, checked by TLAPS, of what
matters most.

    tlc -config Crawl_all.cfg MCCrawl.tla       model-check
    tlapm CrawlProofs.tla                       check the proofs

`PROJECT.json` lists the components, the runs with their properties, the
mutations that show each property can fail, the source lines behind every
definition, the findings, the hazards and the theorems.

## 1. The system

`Generate(ctx, uris, options...)` (`generate.go`) loads the URIs, crawls from
them, plans every schema, groups the plans by Go package and prints each group
to one file. It is sequential but for printing, where every package has a
goroutine.

    Generate ── Crawl ──┬─ Loader (caching) ── base loader ── files, HTTP
                        └─ CompositePlanner ── seven planners
                                └─ Helper: Dep, Resolve, DetectSimpleType, TypeInfo
             └─ Print ─── one goroutine per package ── printer ── Imports, templates
                                                          └─ values.gen.go
    generated code:  json.Unmarshal ── Validate ── json.Marshal

| component (source) | state | operations | calls | what makes it correct |
|---|---|---|---|---|
| caching loader (`internal/cachingloader`) | map from URL to schema, an RWMutex | `Load` | base loader, with no lock held | one pointer per URL for all callers; no race on the map; every Load returns |
| base loader (`pkg/gen/loader.go`, `schema.go`) | the open body; ID and Src of each schema | `Load`, `calculateID`, `setSrc` | os, net/http | what is opened is closed; a loaded schema has ID and Src all the way down; cancelling works |
| crawl (`internal/crawl`) | queue, IDs seen, plans, helper's dependencies | `Crawl`, `Dep`, `DetectSimpleType`, `DetectGoBaseType` | loader, planner | each ID planned once; nothing named is left out, nothing else planned; it ends |
| planners (`internal/planning`, `mapobj`, `composite`, `tuple`, `slice`) | none | `Plan` of seven planners, tried in turn | helper | the types a plan mentions are planned too; what is required is checked; oneOf can be decoded; the imports are there |
| schema model, typer | none | `ChooseType`, `TypeInfo`, naming | | types by the keywords present |
| imports (`pkg/gen/imports.go`) | aliases | `NewImports`, `List`, `QualName` | | no two packages that a file imports go by one name |
| print (`internal/print/print.go`) | channel, wait group, context, files | `Print` | printer | no goroutine outlives it; the result tells the truth; files are whole |
| printer (`internal/print/printer.go`, templates) | a buffer | `Print`, `defaultSort` | Imports, go/format | one write of formatted source |
| prefix mapping (`generate.go`, `internal/planning/planner.go`) | a slice of prefixes that the option's uses share | `PrefixMap`, `PrefixMapper` | package sort | the longest prefix wins; calls of Generate do not race on the slice |
| generated code (`*.tmpl`, `internal/validator`) | the values of the user's types | `UnmarshalJSON`, `Validate`, `MarshalJSON` | encoding/json | accepts what the schema accepts; no nil dereference; survives the round trip |

What is hard here: the interleavings of the loader's callers, of Print's
goroutines with the context, and of Generate calls that share an option; reference cycles; dependencies named by planners
that then decline; agreement between what one planner writes into a plan and what
another is given to plan; the corners of the validators (equal, zero, exclusive
bounds; absent, null and empty values). There are no retries, nothing is
persisted but the output, and no process restarts, so there is nothing to
recover.

## 2. The modules

Modules are listed with what they model; `PROJECT.json` gives the lines. Mutated
copies of actions stand just before the action they alter, each with a comment
that says what was altered; no specification uses them.

### CachingLoader, LoadOnce

`CachingLoader` is one `Load` per caller, cut at every access to shared state:
`RLock`, `Read`, `RUnlockHit`/`RUnlockMiss`, `FetchOk`/`FetchErr`, `Lock` (the
writer claims the mutex and keeps new readers out), `Acquire` (the readers are
gone), `Store`, `Unlock`. Every fetch allocates a fresh address, so that two
pointers can be told apart. The histories `allocated`, `fetched` and `returned`
are read by no action but the choice of a fresh address. NewSimple's comment promises thread safety, so
callers are many, though Generate itself has one. `LoadOnce` says what that is worth to
a caller: a URL is settled once, by someone who is asking for it, and every
successful Load of it answers with that. `CachingLoader` refines it with
`settled <- cache, asking <- key`.

### BaseLoader

One `Load` of the base loader: the scheme decides between opening a file
(`OpenFile`), `Request` and `UnsupportedScheme`; the server may answer, fail or
be silent; the document decodes or does not; it must state an ID (`NoIdSet`
otherwise); `CalculateID`, one schema at a time and in any order (maps are
ranged over), gives children that state no ID their parent's with the path
appended, and goes on to every child; when it is done (`CalculatedIDs`) `SetSrc`
walks the document in the same way and gives every schema the source; `Loaded`
returns. The body is closed by every return after it was opened. A document is
the set of schemas written out in it, by the keys that lead to them. An ID is a
URL and a fragment. calculateID copies the parent's by parsing it relative to
itself, and what URL comes of that is the constant `Resolved`: an absolute URL
stays, a relative one is taken from its own directory and the root.

### Crawl

`LoadRoot`/`LoadFails`, then a loop of `PopSeen`, `PopExcluded` and `PopNew`,
then one action for every planner tried: `PlannerDeclines`, `PlanningFails`,
`PlannerReturnsNil` (a panic), `PlannerAccepts`; `Finish` groups by package.
Planners are free to name anything in `Deps`. Schemas are addresses; their
IDs and exclusions are any, chosen in `Init`. That what a declining planner
named stays in the helper and is queued is in the code, and so in the model.

### Schemas, Planners, Generation

`Schemas` has the records of schemas, `ChooseType`, `DetectSimpleType` (with the
loop through allOf levels, which may not end), `DetectGoBaseType` and the Typer.
The code works a schema's type out again at every call; since it depends on the
documents alone, the model does it once, in the rigid variable `types`.
`Planners` has the seven planners as functions from a schema to an error, the
dependencies named up to then and a plan. `Then` and `Each` string fallible
steps together as the code's early returns do, so the dependencies of a planner
that fails half way are the ones named by then. `Generation` is the crawl with
these planners, one step per planner tried; one that hangs takes the crawl to
"hung", from where no step follows. It refines `Crawl` with the plans seen as
their schemas and paths, and a hung planner as one that has not answered yet,
and so inherits what is proved of it (`CrawlsPromisesHold`). Where a keyword of
a schema may lead, `Schema` in `Schemas` says as a type.

A plan is its kind, its fields (JSON name, Go type, whether required, packages
its validators use), the required properties its template tests, other types
mentioned, packages its source uses and packages `Deps` lists. Text is left out.

### Imports

`CollectDep` gathers `Deps` of the plans in any order, `NewImports` makes the
aliases, `QualName` prints the qualifier of any path a template gives it: one
that no Deps listed has no import, and goes by its base all the same. Paths are their ranks in the order of
strings; `Base` (path.Base) and `Numbered` (Sprintf) are constants, with the
assumption that appending digits yields a new name and different digits
different names.

### PrefixMap

The option PrefixMap makes one slice, and every Generate that is given the
option sorts it in place when it comes to print (`StartSort`, `InPlace`,
`MustMove`, the three memory accesses of an exchange `Save`, `Shift`, `Place`,
`SortEnds`), then looks paths up in it: `Probe` and `SearchEnds` are the binary
search, `StepBack`, `Found` and `NotFound` the way back from there. A call may fail
before it sorts. Strings are ranks, and what begins what is a relation with the
two laws that prefixes have in the order of strings. sort.Slice is modelled as
the insertion sort it is for slices of up to `ShortSlice` entries, 6 in the Go
1.13 of go.mod and 12 in later ones. Longer slices are outside the model
(`SliceIsShort`): what sorts those writes even where the slice is in order, so
the second call of Generate to sort one may race with a lookup. `first` remembers whether the first sort of the slice ran alone;
`NoSliceRace` and `TakesLongest` are claimed for calls that were not disturbed
(`Undisturbed`): the slice was given in order, or one call has sorted it alone
before another began. Where two first sorts overlap over a slice that is out of
order they do race. What a racing lookup then reads the properties do not say: a
Go string is two words, which such a race can tear, and the model moves whole
entries.

### FieldValues, NamedTypes, GeneratedField

The life of one value of generated code: unmarshalled, validated, and if it is
valid marshalled and read again by a second party. `FieldValues` has the JSON
values, the keywords of a schema, `Validators` as `validator.Validators` picks
them and `Test` as the generated `if`s read. `NamedTypes` has the named types
that have methods of their own: slices, maps, tuples, and the
structs around an `interface{}` for a oneOf, told apart by token or by
discriminator; for each, whether it is read and as what, `Verdict`, and what is
written. The `item` of a schema says what its items, or a map's values, are:
whether anything refuses a bad one (`checked`: there is no validator for items
that are closed objects, maps or noValidate, and a struct may have nothing to
check), what null is read as (nil for a pointer to a struct, a slice or an
`interface{}`, else a zero value), what is then said of it, and whether the
schema allows it. `Validate` is called of a nil pointer too, and panics if it
reads a field. A RawMessage keeps the validators of the schema it
stands for, which then measure the JSON text (`TextLength`). `GeneratedField` joins them with a field of a struct: `Guarded` are the
nil guards of `struct.tmpl`, `Marshal` the omitempty tag, and a value is in a
property, nullable or not, or `alone`. `Meets` is what JSON Schema says of the
value, written independently of the generated tests. `AcceptsWhatIsValid` is an
equivalence up to the departures it names: `HasQuirk` where the tests go wrong,
`Unseen` what is never validated, `Refused` what is valid and not accepted.
`MembersAssumption` says what the planners make nullable or the member of a
oneOf; `ItemsAssumption` which kinds of items there are; `KeywordsAssumption` that limits are natural numbers, as are the integers
among the values.

### PrintGroups

Print's main goroutine (`Spawn`, `AllSpawned`, `Receive`, `ContextDone`,
`AllReceived`, `Cancel`, `Wait`: the deferred calls are steps of their own) and one
goroutine per package (`MkdirAll`, `Create`, `PrintOk`/`PrintFails`, `Send` or
`GiveUp`). The mapper's result for each package is any file or none, chosen in
`Init`. Files are sequences of cells marked with who wrote them; every file
starts with a longer text of an earlier run.

## 3. The runs

All runs check for deadlock except those of `Imports` and `GeneratedField`,
where a file has been printed or a life is over. `Stopped` steps in the other specifications
mark the states the program ends in, so that a deadlock is a real one.

| run | question | bounds | distinct states |
|---|---|---|---|
| `loader` | is the cache canonical, race free, live, and does it implement LoadOnce? | 2 callers, 2 URLs, 4 addresses | 134 484 |
| `base_loader` | is everything opened closed, every schema identified, and can a Load be cancelled? | 4 nested schemas, each with an absolute ID, a relative one or none; file, http, other | 5 450 |
| `crawl` | each ID once, nothing missing, nothing extra, and an end? | 3 schemas, every sharing of 3 IDs, every exclusion, 2 planners, 2 URIs | 683 244 |
| `generation` | do plans declare all they mention, check what is required, decode their oneOf; is the crawl with the real planners one of `Crawl`, and when does a planner hang? | 2 264 documents of 16 schemas, 2 lists of roots, one with a URI that does not load | 43 502 |
| `field_life` | is what is accepted what the schema allows, without a nil dereference, and does it stay so? | 1 627 schemas, 32 inputs for each | 152 551 |
| `prefixes` | does the longest prefix win, and do calls that share the slice keep apart? | 2 calls, every slice of 3 out of 4 prefixes, 4 paths | 1 517 469 |
| `imports_names` | are the imported packages of one base apart, whatever is printed? | 5 paths, 3 of one base and one whose base is an alias of theirs | 2 720 |
| `print` | does Print join its goroutines, tell the truth, write whole files, return? | 3 packages, 2 files | 296 862 |
| `generation_imports`, `generation_maps`, `field_rejects`, `imports_clash` | the findings of section 5 | as above | violated |

Why the bounds are enough. *Loader*: a violation of canonicity or a race takes
two callers and one URL; the second URL lets loads of different URLs contend for
the lock; four addresses allow every caller one fetch per URL. For more, the
safety properties are proved. *Crawl*: two
schemas that share an ID, one that does not, a cycle among all three, a
dependency of a planner that declined: all of it fits in three schemas and two planners.
*Print*: one goroutine that fails, one that succeeds and one that is still at
work when Print stops receiving; two packages on one file and a third alone.
*Generation*: the root runs over every keyword the planners branch on, two at
most of each list; the rest is a catalogue that holds every kind of schema a
reference can lead to, including one that does not load, a second address of one
ID, a type that cannot be told, and an `allOf` that leads to itself.
*GeneratedField*: keywords from 0 to 3, so that bounds are absent, zero, equal,
adjacent and crossed, against values on either side of each; arrays with null,
zero, bad and repeated items, over seven kinds of items, with a validator and
without; closed objects and arrays; every kind of named type in a property and alone.
*PrefixMap*: three entries make an insertion sort move one of them twice, equal
entries included; two calls suffice for a race; the paths are a prefix itself,
one that two prefixes match, one whose nearest lesser prefix does not match, and
one that none matches. Any number of calls is proved, and as many prefixes as
sort.Slice sorts by insertion.
*BaseLoader*: a chain of three and a sibling, so that a schema without an ID can
be below one with its own, below one without, and beside either. *Imports*: three
packages of one base take two numbers, and the fourth's base is one of the
numbered names.

Properties, in the words of the code:

* `Canonical`, `NoMapRace`, `FetchedAtMostOnce`, `LoadReturns`,
  `ImplementsLoadOnce`: see the comments in `CachingLoader`.
* `PlannedOnce` (otherwise a Go type is declared twice), `Complete` (otherwise a
  file refers to a type generated nowhere), `Justified`, `Terminates`.
* `NoDanglingType`: the type a planner writes into a field and the schema it
  hands to `Dep` agree. `RequiredIsChecked`: also through allOf, embedded or
  promoted. `OneOfIsDecidable`: by the first token, as the generated
  `UnmarshalJSON` decides. `OnlyNonsenseHangs`: DetectSimpleType's loop ends
  but for schemas with `allOf` whose `type` is no JSON type.
* `LoadedIsWhole`, `NothingLeftOpen`, `CancelledReturns`.
* `NilIsNotRead`, `AcceptsWhatIsValid` (if and only if, up to the departures
  named), `ValidStaysValid`.
* `NoSliceRace`, `TakesLongest`.
* `SameBaseApart`.
* `JoinedBeforeReturn`, `ResultIsTruthful`, `WrittenWhole`, `Returns`.

Each has a mutation in `PROJECT.json` under which TLC finds it violated: the last
store wins, a writer does not wait for readers, a URI too many is read, an embedded
member is not named, a goroutine returns without sending, and so on.

### Fairness

`CachingLoader`: weak fairness of each caller's own steps. The Go scheduler runs
what can run, an RWMutex lets no reader overtake a writer that waits, and the base loader
is taken to return; nobody needs to call. `Crawl`: weak fairness of the one
sequential program. `PrintGroups`: of the main goroutine and each of the
others; not of the caller's cancellation. `BaseLoader`: of the loader's own steps,
not of the server's, so `CancelledReturns` holds against a server that never
answers. Its comment also says that a Load "times out": there is no timeout
anywhere (`http.DefaultClient` has none), and without a cancel a Load may wait
for ever.

## 4. The proofs

Proved by TLAPS for every value of the constants, under the named assumptions
of the modules (constants are distinct, numbers are numbers, sets of goroutines
or paths are finite, digits make new names, prefixes sort before what they
begin, a schema is written out inside another up to the root, documents are
records of the type `Schema` and addresses of schemas are none of the words that
stand for no schema, members of a oneOf have kinds of their own, items without a
validator are not refused, a URL once resolved stays the same, there are no more
prefixes than sort.Slice sorts by insertion). TLC evaluates
these assumptions in the runs. What a single theorem needs besides, its
`ASSUME` says.

An induction theorem of the library takes an operator as its parameter, which
none of the provers can instantiate. Where an induction over numbers is needed,
it is over a set instead: `InductionOnSet`, that a set which has 0 and with each
number its successor has them all, follows from the existence of least elements
(`WFMin`). With it go the recursive functions over lists of `Generation` and the
keys of `BaseLoader`.

Ending is proved as far as it can be without fairness. A theorem named `...RunsOut`
says of every step that it lowers something which cannot be lowered for ever, and
one named `...IsNotStuck` that as long as something is to be done, someone can do
it. What the liveness properties add is only that who can go on does. Of
deadlock, `ENABLED` being out of the prover's reach, the theorems name the
guards (`Ready`, `MainReady`, `GoroutineReady`); that these are `ENABLED` of the
steps TLC confirms on the instances of the runs.

* `CachingLoaderProofs`: `TypeCorrect`, `MapIsNotRaced`, `LoadsAreCanonical`,
  `FetchesAreNotRepeated`, `LoaderKeepsPromise`. `Typing` adds to the types what
  a Load in progress holds. `LockDiscipline` ties `readers` and `writer` to the
  program counters, which is mutual exclusion. Canonicity is not inductive: what
  is, is that everything returned is in the cache and that the cache never
  changes once filled (`LocalsMean`, `ReturnedIsCached`), and for repeated
  fetches that what a caller has fetched is in the cache or about to be
  (`FetchedIsKept`, `NotFetchedYet`). The refinement maps `Call` to `Call`,
  `Store` on an empty entry to `Settle`, `RUnlockHit` and `Unlock` to `Return`,
  `FetchErr` to `Fail` and the rest to a stutter. `LoadsAreNotStuck`: who waits
  for the lock waits for callers that hold it, who can all go on
  (`WaitsForWork`, from `LockDiscipline`).
* `CrawlProofs`: `TypeCorrect`, `IdsArePlannedOnce`, `CrawlIsComplete`,
  `PlansAreJustified`. `MarkedOnce`: the IDs of the plans are marked and
  distinct, and the current one is marked but not planned. `Accounted`: what was
  named is marked, queued or in the helper, and a mark means a plan, an
  exclusion or the current schema; with an empty queue that is completeness.
  `WaitsWithReason`: whatever waits was named by a schema planned before.
  `CrawlRunsOut`, for finitely many IDs: the rank is three numbers, of what is
  yet to meet (URIs and IDs), the planners left to try and what is queued,
  compared in that order. No single sum will do, since an accepted schema may put
  any number of others into the queue; and it is the mark made when a schema is
  taken up, not when it is planned, that lowers the first number in time.
* `PrintGroupsProofs`: `TypeCorrect`, `GoroutinesAreJoined`,
  `ResultsAreTruthful`, `FilesAreWhole`. The count is the invariant: results
  received plus buffered are the goroutines that have sent; an error that was
  sent is still in the channel while Print loops. So when all are received,
  all have sent, and none an error. `OwnFile`: a file that is one package's alone is
  empty while it is written and whole after. `PrintRunsOut`: each step of Print, a
  goroutine or the caller takes something out of one of four finite sets, of the
  stages ahead of Print, of those ahead of the goroutines, of the results yet to
  be received and of the cancellation, and adds nothing to any.
  `PrintIsNotStuck`: by the count, the buffer has room for every goroutine that
  has not sent, so Print waits only for those that will (`NobodyIsStuck`).
* `ImportsProofs`: `TypeCorrect`, `AliasesKeepApart`. The rank of a path among those of its base is the number
  of them up to it, strictly growing (`RankGrows`), and an alias tells the rank
  (`AliasTellsRank`). `QualifiersTellPackages`: where no base is another with a
  number, nor two numbered bases the same (`BasesDoNotClash`), an alias tells
  the base as well, so no two packages that are imported share a qualifier.
* `BaseLoaderProofs`: `TypeCorrect`, `BodyIsClosed`, `EverySchemaIsIdentified`,
  `LoadedSchemasAreWhole`. The invariant: a schema is identified for good, or it
  is below one in `todo` (`Waits`), so when `todo` is empty none waits, and each
  ID is the one stated or made from that of the schema right around it. Of
  setSrc's walk likewise: a schema has the source, or it is below one in `todo`
  (`Sourcing`). Both together are `EverySchemaIsIdentified`. From that `LoadedIsWhole` follows by induction
  over the keys that lead to a schema: its ID is that of the nearest schema
  around it that states one, resolved, with the keys from there spelt out. `LoadRunsOut`,
  for documents of finitely many schemas: no schema in `todo` is below another
  (`Apart`), so neither walk visits one twice, and what is ahead of it shrinks
  with each that it visits.
* `GenerationProofs`: `TypeCorrect`, `StructsCheckRequired`, `OneOfsCanBeRead`,
  `SenseIsPlanned`, `PlannersRefineCrawl`, `CrawlsPromisesHold`, for any
  documents of the type `Schema`, with lists of any length. The planners are
  pure, so most of the work is to say what each returns: a plan and dependencies
  that are `Sound`. Steps strung together are a step again, and one that does not
  fail has done all that each of them does (`InOrderIsStep`, by induction);
  from there each planner in turn, and `CompositeIsSound` for all seven. A plan
  of a oneOf has found no token twice, so its members' types are as many as they
  are (`PlanOneOfIsSound`). The invariant `Typing` says that all plans so far are
  sound, which gives the state invariants at once. The refinement maps `PassOver`
  to `PopSeen` or `PopExcluded`, `Pop` to `PopNew`, each outcome of a planner to
  the action of its name and `PlannerHangs` to a stutter; grouping commutes with
  the mapping of the plans (`GroupsRefine`, by induction). `Crawl` asks as a
  constant what a planner may name; the theorem takes any list of schemas
  (`Deps = Seq(Nodes)`). `CrawlsPromisesHold` then takes the theorems of
  `CrawlProofs` over to the crawl with the real planners, and
  `GenerationRunsOut` the rank: a step lowers it or a planner hangs, over a
  document that `SenseIsPlanned` describes.

  `NothingDangles` states `NoDanglingType` for every document that makes sense
  (`DocumentsMakeSense`). That is four conditions, and the property is false
  without any one of them, as TLC shows with a document for each:
  `TypesAreKnown`, since a property whose `type` is no JSON type, that is
  nullable and has an allOf, is planned as that allOf, and the member of the
  oneOf its field is a pointer to is never named; `MembersAgree`, since an allOf
  whose first member is an object embeds the others by the names of their IDs,
  and a member of type string with additionalProperties is planned as a map that
  goes by "string";
  `IdsAreOneType`, since the crawl drops the second schema of an ID without
  looking whether its Go name is that of the first; `ExcludedAreTyped`, since an
  excluded schema is passed over with what it would have named. Of the
  1119 documents of `generation` that succeed, 1060 meet them. The
  invariant is `PlansNameTypes`: each type a plan mentions is that of a schema
  handed to Dep, or of a oneOf member of one that has no type itself
  (`StandsFor`), and a plan for a schema without a type has handed those members
  on. It is proved planner by planner, with the steps of a planner strung
  together as before; `Complete` of `Crawl` then says that what was named has
  been planned.

  `OnlyLeftOutIsMissing` and `OnlyBothIsMisread` close two of the findings of
  section 5: the runs show that a property fails, the theorems that it fails for
  no other reason. A plan of any planner imports what it uses but for `LeftOut`,
  the packages of a slice's item validators and of a oneOf's members; and a map
  is planned for an object with properties of its own only where it has
  `additionalProperties` too (`Dutiful`, proved for each planner; a package's
  group has plans of that package only, `GroupsAreOfPlans`).
* `PrefixMapProofs`: `TypeCorrect`, `SliceIsRaceFree`, `LongestIsTaken`, in
  three stages. `Inserting`: while one call sorts alone, what is before its
  index is in order, but for the entry on its way down. `Settling`: from then
  on, or if the slice was given in order, no sort finds anything out of order,
  so none writes. `LookingUp`: what the search has passed is not greater than
  the path, what it has excluded is; and on the way back no prefix that was
  stepped over matches. Any prefix of the path that is longer would come later
  in the order (`PrefixesNest`).
* `GeneratedFieldProofs`: `TypeCorrect`, `NoNilIsRead`, `ReadBackValid`,
  `ValidIsAccepted`, for every combination of keywords and every value at once.
  `Reading`: only a RawMessage holds null. `ComesBack` says, kind by kind, that
  what is accepted, written and read again is the same and accepted, up to what
  `ValidStaysValid` excepts: a nil (`NilComesBack`), what omitempty drops
  (`OmittedComesBack`), a tuple filled up (`TupleComesBack`), any other value
  (`ValueComesBack`). `Sent` says where the value is at each step.
  `ValidIsAccepted` is the equivalence of `AcceptsWhatIsValid`. First the
  generated tests against the keywords: lengths, with the three validators that
  share two bounds (`LengthTests`), bounds and divisibility (`IntegerTests`,
  `Multiples`), the items of a slice, where unique means as many names as items
  (`NamesOfItems`), and bad and null items for each kind of them (`ItemTests`,
  `SliceTests`). `SlicePanics`: only a nil item makes a slice's `Validate`
  panic. Then each kind of schema with each kind of
  value (`NoneIsJudged` to `OneOfAloneIsJudged`), and `Answered` says that the
  verdict is Validate's of what was read. The proof needed the departures to be
  stated more sharply than the run: that a closed array is not validated as a
  field either, and that the quirks of a bound are those of the member a value
  belongs to.

Only model-checked are the liveness properties (`LoadReturns`, `Terminates`,
`Returns`, `CancelledReturns`): liveness under fairness is out of the prover's
reach, and of what it rests on the theorems above prove the rest. Of the
properties that do not hold, `EveryUseIsImported`, `MapsHaveOnlyAdditional` and
`QualifiersApart` are proved up to the reason the run shows, and for
`InvalidIsRejected` `AcceptsWhatIsValid` lists the exceptions.

## 5. Findings

* `generation_imports`: `slice.Plan.Deps` leaves out the packages of the item
  validators. A slice of strings with a pattern does not compile; the golden
  file `internal/slice/testdata/generate/array_pattern/foo/values.gen.go` uses
  `regexp.MustCompile` without the import. The traits of discriminated and plain oneOf
  leave out the packages of their members' types too. Nothing else is left out
  (`OnlyLeftOutIsMissing`).
* `generation_maps`: PlanMap declines if a && b || c || d, where a || b || c || d is
  meant (a: not an object; b: it has properties; c, d: no additionalProperties
  that count), so an object with properties and
  additional properties becomes a map without the properties. No
  other schema does (`OnlyBothIsMisread`).
* `imports_clash`: the alias `foo2` of one package can be the base of another.
  Such names are the only cause (`QualifiersTellPackages`).
* `field_rejects`: `Validate` accepts values its schema rules out: any string
  where maxLength is 0; an integer below `minimum` if there is a lower numeric
  `exclusiveMinimum` (maximum likewise); strings by bytes, not characters; a
  property that is a map, whatever its minProperties; items that have no
  validator. `AcceptsWhatIsValid`, checked in `field_life` and proved in
  `ValidIsAccepted`, says that there are none in the model but those it names
  (`HasQuirk`, `Unseen`).

Met on the way, and modelled, without a text of the repository that says
otherwise:

* an optional array with minItems is rejected where it is absent, because a
  slice's `Validate` is called without a guard;
* null in an array of structs is read as a nil pointer, and `Validate` panics if
  the struct has something to check, or else accepts it;
* items that are closed objects, maps or noValidate are not validated, nor are
  such values of a map;
* null for an item that is no pointer is read as a zero value, and refused or
  accepted as that, whether the schema allows null or not;
* a RawMessage of a string with minLength or maxLength is measured by its JSON
  text, quotes and escapes included; one that is absent and has no omitempty is
  written as null, four bytes that may be too few at the other end;
* a schema that states a relative ID, "v/w" say, gives the schemas in it IDs
  from elsewhere ("/v/v/w"), since its ID is parsed relative to itself;
* the templates write `fmt.` as it stands, not through QualName, so a package
  "a/fmt" among the imports would take the name and leave fmt as `fmt2`;
* a property that is an object with `additionalProperties` false, or an array
  that states any, is never validated, nor a nullable one, nor a struct in the `interface{}` of a oneOf;
* a member of a oneOf that is not to validate (`noValidate`) is validated with
  the others if one of them is a slice that does;
* an absent oneOf is written as null, which its own `UnmarshalJSON` refuses
  unless null is a member; `MarshalJSON` has a pointer receiver, so that a
  struct marshalled by value does not even come to it;
* a required map that is empty is dropped by omitempty and rejected at the other
  end (`IsLost`);
* an allOf that `PlanAllOfObject` has matched and then declined, because a
  member's type is unknown, is planned by `PlanObject` without its members;
* two packages mapped to one file overwrite each other;
* two calls of Generate that share a PrefixMap option may sort its slice at once.
  (The other slice an option shares, TypeFromID's, is sorted when the option is
  made, and only read after);
* a load has no timeout.

Met, and outside the model because the generated code does not compile or a name
is text: the `Validate` of tuple.tmpl reads `m`, where the receiver is `t`, once
an item has validators; uniqueItems over a slice of structs asks for a map of
them; a required property that is a oneOf with a gopath, or a tuple, is compared
with nil; `JSONPropertyExported("")` indexes an empty slice.

## 6. What is not modelled

* The unmarshalling of schemas (`UnmarshalJSON` of Schema, TypeField, Items,
  BoolOrSchema and configuration): `Schemas` starts from the decoded record.
* References: `Resolve` loads the URL of a `$ref` with its fragment as it stands; the
  model has the schema it leads to, or `Broken`.
* The text of names: `TypeFromId`, `JSONPropertyExported`, field aliases. What
  matters of it, whether two names become one, depends on every character, and
  the names are data to all else that is modelled.
* Of generated code: patterns, float64 fields, the `Validate` of tuples (which
  does not compile where it would do anything), error paths, and the boxed
  marshalling of embedded fields. The text of a RawMessage is taken to be as
  Marshal leaves it (no space, and what it escapes escaped), and the items of
  tuples to have no MarshalJSON.
* sort.Slice beyond the sizes at which it is an insertion sort.
* The composition of Generate as one specification: Crawl and Print share
  nothing but the plans, which Print only reads, and the context, whose
  cancellation each has on its own.
* Templates, go/format, `defaultSort`, embedded templates, the test harness,
  debug logging, options, `ExtractName`.

## 7. Plan

1. `Naming`: words, initialisms, fragments of IDs; when two properties or two
   schemas of a package get one Go name.
2. `Generate`: `Crawl` over `CachingLoader` with `Print` behind it, the context
   cancelled anywhere.
3. The unmarshalling of schemas: `TypeField`, `Items`, `BoolOrSchema` and the
   configuration, each with what it takes for absent.
