# A TLA+ model of gol-wildfire

The repository simulates a forest fire on a torus, turn by turn, with several
engines that must all compute the same thing, faster and faster. This directory
holds TLA+ modules translated from the Go code (and from the script of the web
page), the TLC configurations that check them on small instances, and theorems
that TLAPS proves for maps of any size.

Names are the code's: `feu`, `repos`, `carte`, `ignite`, `Step`, `Burning`...

## 1. Inventory

| Part | State | Operations | Interacts with |
|---|---|---|---|
| `fire.Map` (`internal/fire/fire.go`) | terrain, wind, list of initial fires; immutable once built | `At`, `Mod`, `WindAt`, durations | read by every engine |
| reference (`internal/firetest/reference.go`) | `feu`, `repos` | one turn: spread, then three branches | the oracle every engine is tested against |
| naive | one grid; `ignite` allocated per turn | `New`, `Step`, `Burning` by a scan | driven by `Run`, web, tests |
| flat | `grid`, `next`, `ignite`, all kept across turns | clear, spread, apply, swap | same |
| counters | flat + `burning` | the count is updated by each change of a cell | same |
| ghost | padded `ignite`, halo list, `burning` | spread by plain indices, fold of the halo | same |
| front | grid, marks, lists `active`, `resting`, `pending` | mark, two in-place compactions, flush | same |
| bitpack | four bit planes, `source`, `ignite`, `burning` | word shifts with carries, windy cells one by one, bit formulas | same |
| `fire.Run` | `Result` being built | `Step`, display, snapshot callback, extinction test | calls an engine and two fallible callbacks |
| web server (`cmd/web/main.go`) | map, engine, turn, under one mutex | `reset`, `step` | one goroutine per request |
| web page (`cmd/web/index.html`) | decor, fire, `running`, `busy`, `extinct`, `timer` | clicks, timer, answers, timeouts | sends requests, one at a time |
| map generation (`fire/carte.go`) | two fields, thresholds, the map being built | smoothing, quantiles, draws without replacement | before any engine |
| engines, registry (`internal/engines`, `fire.go`) | the factories by name | `Register`, `Get`, `Names` | CLI, web, tests |
| snapshot: ring (`dedup.go`) | the last prints, `i`, `plein` | `NewDedup`, `DejaVu` | decides whether a state is written |
| snapshot: pools and formats (`pool.go`, `packed.go`, `proto.go`, `json.go`) | slices given back, with what they held | `Capture`, `Write`, `Read` | called back by `Run`, or by a series |
| store (`internal/store`) | PostgreSQL tables, index, statistics | nine calls, one or several statements each | one caller, a fallible connection |
| CLI (`cmd/wildfire`) | profile files, deferred calls, exit code | `main` from flags to exit | generates, calls `Run` |
| bench, scripts, report | none | measurements | |

What is hard here. There is no parallelism inside an engine; the difficulty is
that each engine *reuses memory across turns and changes it while reading it*:
a stale entry of a buffer, a cell aged before its neighbours have read it, a list
overwritten while it is ranged over, an index that leaves a padded buffer, a bit
that leaves a row through the padding of its last word. Such a fault shows on a
few maps only, often on small or degenerate ones (width 1 or 2, duplicate fires,
fires on water, opposite winds). `Run` has several exits whose order matters, and
two callbacks that may fail. The web part is concurrent: requests of several tabs
on one fire, pages that give up on requests the server still serves, and pages
loaded again. Around the simulation the faults are those of I/O: a buffer that
still holds the previous snapshot, a write that stops half way, a print remembered
before its file exists, a statement done whose answer is lost, an exit that skips
the deferred calls.

What makes each part correct:

- rules: counters in range, water confines, no wind means extinction, everything
  becomes available again, the front has a bounded speed;
- engines: every `Step` is one turn of the rules, on every map (refinement), and
  the redundant state (counts, lists, padding) agrees with the grid;
- `Run`: the `Result` tells why it stopped, no snapshot is lost or repeated, it
  returns;
- web: an answer is of one instant, a playing page has one driver, no one waits
  for ever;
- generation: a map the engines accept, in the proportions asked for as far as
  rounding and equal values allow;
- snapshot: a file depends on its state only, it is right or unreadable, and a
  state is omitted only if a complete file holds it;
- store: what an error says of the table is true, a retry is never counted twice,
  a fingerprint is found again, the planner knows the table;
- CLI: the exit code tells whether the results and the profiles can be used, but
  for the errors `main` drops.

`PROJECT.json` lists the hazards line by line with the properties that catch
them.

## 2. Modules

| Module | Models | Notes |
|---|---|---|
| `Fire` | `fire.go`: the contract | a cell is `<<x, y>>`, the bijective image of the index `y*Width+x`; Go's truncating `%` is `Reste` |
| `Regles` | `reference.go` | abstract specification: a turn is one atomic action `Tour` |
| `Chronique` | an observer of `Regles` | history variables `tour`, `prise`, `vus` only |
| `Moteur` | what naive, flat, counters and ghost share word for word | loop cursor, contagion of a cell, ageing of a cell |
| `Naive`, `Flat`, `Counters` | the engines of those names | one action per iteration of each loop |
| `Ghost` | ghost | the ignite buffer is a set of integer indices, as in the code |
| `Front` | front | the lists are sequences, the compaction writes in place |
| `Bitpack` | bitpack | a word is the set of its bits; `WordBits` stands for 64 |
| `Engines` | the registered engines behind `fire.Engine` | one system, six implementations; `New` chooses one for good |
| `Run` | `fire.Run`, `dessine`, `capture` | its engine is `Regles`: each engine implements it |
| `Cli` | `cmd/wildfire` around `Run` | one action per call that may fail; `pannes` holds the calls that failed without `main` knowing |
| `Generation` | `carte.go` | numbers are naturals, proportions fractions |
| `Pool` | `pool.go` | instanced twice, bytes and words |
| `Memoire`, `Dedup` | what the ring promises; `dedup.go` | `Fifo` is the refinement |
| `Snapshot` | the formats as functions: bytes of a state, state of some bytes | |
| `Formats` | `Write` of each format on recycled buffers | extends `Snapshot`, instances `Pool` |
| `Archive` | series of captures, as `internal/bench/serie_test.go` composes them | `Regles` + `Dedup` + `Formats` |
| `Base` | PostgreSQL as the schema and the statements use it | a statement commits by itself |
| `Store` | `internal/store` over `Base` | one action per statement |
| `Web` | `cmd/web` | one action per statement of the handler that touches shared state, one per event of the page |
| `Cartes`, `MC*` | instances for TLC | sets of small maps, campaigns, lists, flags |
| `ReglesProofs`, `CountersProofs`, `EnginesProofs`, `CliProofs`, `WebProofs`, `StoreProofs`, `ArchiveProofs`, `GenerationProofs` | theorems | section 4; `ReglesProofs` also covers `Chronique`, `CountersProofs` also `Flat`, `CliProofs` also `Run`, `ArchiveProofs` also `Dedup` and `Formats` |

Composition: `Regles` is instantiated by each engine (`R == INSTANCE Regles WITH
...`) with a refinement mapping, and `Conforme == R!Spec` is checked as a
property; `Engines` instances the six and states it once for all of them.
`Counters` extends `Flat`, `Chronique` and `Run` extend `Regles`, `Cli` extends
`Run`, `Store` extends `Base`. `Archive` runs the rules, the ring and the writer in
one system, because what matters there is between them: the ring is told of a
state before the writer has written it.

The refinement mappings. flat, counters and ghost show the grid, which the swap
changes at once. naive and bitpack age in place: their mapping completes the
turn (`Vue`, `Mots4`), so that the abstract turn happens when the spread ends.
front's mapping adds to each cell what its lists still owe it (`Vieillit`,
`Prendra`). While `New` lays the fires, every mapping shows them all: no caller
sees the engine before `New` returns.

What an engine iterates over is never reordered: the cursor goes row by row, the
lists front to back. In `Bitpack` one action handles the three rows a source row
is spread to, and one all the windy cells, because these only add bits.

Operators whose comment begins with *A bug* are deliberately wrong variants of
the definition below them; no specification uses them. They show that a property
does break when the code does what they say.

### Web

A map is the number of the `reset` that drew it and a fire is that map and the
turns played, so that "the answer mixes two fires" can be said without grids.
`Lock` takes the mutex and `Unlock`, the deferred call, releases it on every
way out, `Refuse` included; in between each statement is an
action of its own, so the mutex, not the model, makes the handler atomic. A page
has at most one request in flight (`busy`); `Abandonne` is `AbortSignal.timeout`
or a network failure: the page forgets the request, the server does not.
`Finalement` is the `finally` block. `Recharge` is the page loaded again, which
forgets its request. `Invalide` is a body the server cannot decode, refused before
the mutex: every request of a page carries the seed typed in it, steps included, so
a fractional or huge seed has them all refused. `Tiers` is a client that is not the page.

### Snapshots

A file is a sequence of numbers, one per byte of data and one per field of a
header or varint: widths of integers do not matter to the properties, the bits of
the packed bytes do and are computed. `w.Write` may write any part of a piece and
fail; every `Write` then gives its buffers back through `Rend`. `Pool` keeps the
contents of each array, so that what a recycled buffer still holds is in the
model. A slice of the pool is offered as `sync.Pool` may offer it, latest first or
oldest (another processor's), and the collector may empty it.

`Empreinte` is taken to be injective: two states with one 64-bit FNV print would be
merged by the ring, which the code accepts. Any print may be 0: `MCZero` makes it
the print of a state that occurs, so that comparing an entry `make` left there
would show.

### Store

A statement is applied as a whole or not, and the caller gets its answer or an
error: `Exec` has the three outcomes applied and answered, applied and not
answered, not applied. A statement of a broken connection that is applied after
its caller has moved on is left out. There is one caller, as in the tests and
benchmarks of the repository, and it forgets the ids of its runs when it resets.

### Generation

The generator draws any number of `Hasards` for a cell; smoothing sums instead of
averaging (a change of scale, so order and equality are those of the averages, not
of their floating-point values). `int(q * n)` is the exact rank, or one less when
the product is an integer and `q` is not one of the binary fractions of `Binaire`
(those whose denominator divides 16 once reduced, 1 = 3/3 included, whose products are
exact), as a product of floats may come out. The two infinities `quantile` returns
are two numbers outside the fields with their own order, `Dessous`: no number is
below the one, none is above the other, and it is the `<` of `Generate`.

## 3. Runs and what they show

| Run | Instance | Shows |
|---|---|---|
| `regles` | all 1x1, 2x1, 1x2 maps; 3x1, 4x1, 1x4, 2x2 with chosen winds; 3x2 without wind; 3x3, 5x2 and 5x1 plains with any wind on a cell; a 7x1 forest between two rivers | counters in range; `Confinement` over every region of every map; without wind the fire dies out; an extinct map recovers |
| `chronique` | the same shapes, a 5x4 plain, nine turns | `Horloge`, `Cone`, `Front` |
| `counters` | 1x1 to 3x2 maps | conformity of the double buffer (`Flat`'s, on the specification that extends it), exact count between turns and inside them |
| `engines` | by engine, the maps that are hard for it: widths 1 to 7, rings, rivers, pairs of winds, duplicate fires; `WordBits = 3` | every engine implements the rules and counts its fires; ghost stays in its buffer and folds it right; front's lists agree with its grid, never grow, never decrement zero; bitpack's padding stays clear |
| `snapshot` | three maps (1, 3 and 5 cells), five campaigns (format, cache size from -1 to 4, period), two series of eight turns on one pool, recycling on or off, writes cut at their ends, middle and last field | no residue of an earlier snapshot; a file is right or unreadable; one owner per array; nothing lost by omission; the ring is the memory of the last prints |
| `generation` | nine configurations, 1 to 4 cells, proportions from below 0 to above 1, binary or not; every field over four values | playable maps, proportions, ends |
| `store` | seven calls, four lists (one turn, three, a duplicate, none), 3-bit fingerprints | what errors say, retries, signs, statistics |
| `run` | every set of flags around `Run`; `Run` alone with turns -1 to 9, periods -2 to 3, display and snapshot on or off; failure at any call; fires that die, that never start, that never die | `Result`, snapshots, images, termination, exit code |
| `web` | two tabs, three maps lasting 1, 2 and 0 turns, four requests, timeouts, reloads, refusals | coherence of the answers and of the server; one driver per playing page; no one waits for ever |
| `deja_vu` | five-cell ring, one wind | **violated**, see below |
| `tour_sans_feu` | as `run`, without the command | **violated**, see below |
| `deux_onglets` | two tabs, no timeout | **violated**, see below |

Why the bounds are enough. An interaction of the rules spans two cells, so a ring
of five cells has a jump whose source, obstacle and target are distinct and whose
upwind sector is not its downwind one; the widths 1 to 4 are where neighbours
coincide, which is what `Mod`, `wrap`, the halo and the word edges must survive.
Terrain and initial fires are enumerated in full on the smallest shapes. A fire
of the rules has a period of at most a few turns on them: the engines' runs have
no bound on the number of turns and explore every reachable state. With
`WordBits = 3` rows of 1 to 7 cells have one word, one full word, two and three
words, as widths 1 to 192 have with 64 bits. `MaxTours = 9` is more than two
cycles of a forest cell (2 turns of fire, 3 of rest). `MaxRequetes = 4` lets a
request be given up, served late, and race with two others.

`snapshot`: maps of 1, 3 and 5 cells leave the last packed byte half empty and make
buffers too short, too long and just right for the next series; a series of
`MaxTours = 7` turns sees the cycle of the ring of five twice, with caches that
hold it (4) and that do not (3), so the wrap and the eviction happen;
`MaxSeries = 2` brings a second series, in another format, on the first one's
buffers; `MaxTampons = 6` is more arrays than a pool and the `Write` in
progress ever hold together (five is proved to be enough), so it is never exhausted. `Coupes` keeps the cuts that differ: nothing, one element, the middle,
a whole last field, all but one or two.
`store`: `MaxAppels = 7` is enough for `Migrate`, `NewRun`, an insertion that
fails, its retry, another way of writing and two queries; `Demi = 4` has four
negative fingerprints as 64 bits have 2^63. `generation`: with `Hasards = {0, 1, 2,
5}` values tie, do not, and are unevenly spaced. In
`engines` each behaviour is of one engine, on the maps chosen for it.

Fairness. `Regles!FairSpec` assumes a caller that keeps calling `Step`, extinction
or not: the loops of the tests do (the reference, the cycles, the benched series).
`Run` and the web server stop when the fire is out, or before: for them
`SansVentSEteint` holds of a caller that asks for enough turns, and
`ToutRedevientDisponible` says nothing. `CliSpec` assumes that a sequential function
that calls nothing that blocks goes on. In `Web`, a handler goes on while it can, and
`sync.Mutex` lets every waiter through in the end (its starvation mode hands the
lock to the oldest waiter), hence strong fairness for each request. That
covers `Repond`, which encodes the answer to the socket while it holds the mutex, on
a server that sets no write timeout: a client that never reads a large answer would
hold the lock, and every other request with it, until its connection breaks. So
`NAttendPas` is about clients that read their answer (`Invalide` is a property of
the body and never owed); the browser delivers an answer to a page still waiting
for it. Clicks, timers and timeouts have no fairness.

`CHECK_DEADLOCK FALSE` appears where the system really stops: `Run` returns, the
observer leaves after `MaxTours`, the tabs have used their requests, the series are
written, the map is generated, the caller has made its calls.

### Disagreements between code and documents

1. `deja_vu`: REGLES.md §6 says that a fire that keeps going never comes back to
   a state already seen, to justify that there is no stop on a cycle. The state
   is finite and a turn deterministic: five plain cells in a ring with one wind
   come back to an earlier burning state within nine turns.
2. `tour_sans_feu`: REGLES.md §6 says the simulation stops when nothing burns;
   `Run` tests it only after a turn, so a map without a burning cell is stepped
   once and reported extinct after 1 turn.
3. `deux_onglets`: all tabs share one fire, and the decor is only sent to the tab
   that resets. The other tab draws the new fire over the old map, burning water
   included, while the page says water never burns.

Smaller ones, met while modelling and kept out of the runs by the way the
properties are stated: `carte.go` says that quantiles make the proportions exact,
but ranks are rounded down, equal values (which smoothing produces on a 3x1 or
3x3 torus, whose neighbourhoods are the whole map) put fewer cells below the
threshold, and a map of one cell has no median, hence no river even with
`Rivers = 1` (REGLES.md §7 claims the same: 8 % asked for gives 8 %); `Juste`
and `Extremes` say exactly what holds. `NewDedup` speaks of "the last prints" but a print seen again is not made younger: `Memoire` says so. A
JSON file that lacks only its final line feed still reads, as the state it holds.
The command drops the errors of four calls (`pprof.StopCPUProfile`, which has none to
return although it writes the profile; `Close` on either profile; `Printf`), and
`WriteTo` may keep one for itself: with a full disk or an output it cannot write to
it exits 0 with a truncated profile or without its line of results. `Cli` lets each of them
fail and `CodeFidele` says what 0 is worth then. `deux_onglets` stops at the decor:
the trace's last map need not have a burning cell for the two tabs to differ.

## 4. What is proved

TLAPS proves these for every value of the constants: every set of well-formed maps
(`MapsAssumption`, `MapsDeAssumption`: positive sizes, terrain and wind on every
cell, fires on the map, which is what `NewMap`, `SetWind`, `Ignite` and the callers
build), hence maps of any size, any wind and any list of fires; any number of bits
in a word, of tabs, of requests, of buffers, of prints in the ring, of rows, of
turns; for the generation, any sizes, passes, numbers drawn and proportions, from below
0 to above 1 (`GenerationAssumption` says only what types a `Config` has). In brackets,
the property of section 3's runs the theorem states.

| Theorem | Statement |
|---|---|
| `ReglesProofs!TypeCorrect`, `CompteursCorrects` | counters in range, never both running [`TypeOK`, `Compteurs`] |
| `ReglesProofs!ConfinementTenu` | rivers hold [`Confinement`] |
| `ReglesProofs!HorlogeJuste` | the counters of a cell are a function of the time since it last caught fire [`Horloge`] |
| `ReglesProofs!ConeTenu`, `FrontExact` | the fire never goes faster than one cell a turn, two with winds; on windless land it goes exactly at that speed [`Cone`, `Front`] |
| `EnginesProofs!EnginesConformes` | each of the six engines implements the rules [`Engines!Conforme`] |
| `EnginesProofs!BurningExact` | `Burning` is the number of burning cells, for each of the six [`Engines!Exact`] |
| `EnginesProofs!JamaisHorsDuTampon`, `BordsReplies` | ghost stays in its padded buffer, and one pass folds its halo [`DansLeTampon`, `Replie`] |
| `EnginesProofs!ListesSansPerte`, `CapaciteSuffit`, `JamaisSousZero` | front's lists agree with its grid, never outgrow their capacity, never decrement zero [`ListesFideles`, `SansReallocation`, `SansDebordement`] |
| `EnginesProofs!PasDeFauxBits` | bitpack's padding stays clear [`Remplissage`] |
| `CountersProofs!TypeCorrect`, `Conformite` | the double buffer implements the rules [`Flat!Conforme`] |
| `CountersProofs!ComptageExact`, `ComptageEnCours`, `ComptageConforme` | counters' count is exact between turns and inside them, and counters implements the rules [`Exact`, `Compte`, `Conforme`] |
| `CliProofs!ResultatsJustes`, `ToutEstBienPris`, `AucunTourInutile` | the `Result` of `Run`, its snapshots and images, no turn after the extinction [`ResultatJuste`, `ToutEstPris`, `PasDeTourInutile`] |
| `CliProofs!CodeToujoursFidele` | 0: the map was played to its end, and a profile is complete, the results printed, exactly when no call whose error is dropped failed on it; 1: no complete profile, nothing printed [`CodeFidele`] |
| `WebProofs!ReponsesCoherentes`, `ServeurToujoursCoherent`, `PagesPilotees` | answers of one instant, server of one fire, pages with one driver [`ReponseCoherente`, `ServeurCoherent`, `UnSeulMoteur`] |
| `StoreProofs!InsertionsJustes`, `ComptesJustes`, `EmpreintesFideles`, `PlansAJour` | what errors say of the tables, retries, signed fingerprints, statistics [`Insertion`, `CompteJuste`, `EmpreinteFidele`, `PlanAJour`] |
| `ArchiveProofs!AnneauFidele`, `ArchiveFidele` | the ring is the memory of the last prints, alone and as the archive drives it [`Dedup!Fifo`] |
| `ArchiveProofs!RienNEstPerdu` | a state not written is in a file already [`RienDePerdu`] |
| `ArchiveProofs!UnSeulProprietaire`, `FichierSansResidu` | one owner per recycled array; a complete file depends on its state only [`TamponExclusif`, `SansResidu`] |
| `ArchiveProofs!LectureFidele` | a file is read back as its state, and one cut anywhere as its state or as an error [`AllerRetour`] |
| `GenerationProofs!Jouable` | the map returned is one the engines accept, with the fires and the winds asked for, on cells that burn [`CarteJouable`] |
| `GenerationProofs!Proportionnee`, `ExtremesTenus` | water and forest in the proportions asked for, but for the rounding and equal values; nothing and everything exactly [`ProportionsTenues`, `Extremes`] |

The arguments.

- *Rules.* `IInv` is the type with the counters bounded by the terrain's
  durations, and never both positive. `Compteurs` alone is not inductive without
  the type; the exclusion is needed because the three branches only decrement one
  counter. `UneCase` is the case analysis of one cell in one turn.
- *Confinement.* `CiblesAPortee` shows that a target is within the distance the
  region is isolated by (`EcartMod`: distance on a ring after a modulo), then
  nothing combustible outside the region is ever a target of a cell inside.
- *Clock, cone and front.* `HInv` is the clock itself with the type of the history
  variables; the case of a cell that rests while it is ignited is where the
  branches' order matters. `Cone` is inductive with it, by the triangle inequality
  on a ring. For `Front`, `Voisine` says that a cell at distance `t + 1` from the
  fires has a neighbour at distance `t`, which by the clock burns at turn `t`.
- *Double buffer.* `FInv` says what the buffers of flat hold inside a `Step`: during
  the spread, `ignite` is the union of the contagions of the cells already visited;
  during the last loop it is complete and `next` holds the aged value of each
  visited cell. Nothing is assumed of the rest of `next` or of `ignite` before the
  clear: that is the claim that stale entries do no harm. The row-major cursor
  visits each cell once (`VuesSuivante`). The swap is then `Tour`, every other
  step a stutter.
- *counters.* `BInv` says that `burning` is the cardinality of the visited cells
  that burn in `next` and the unvisited ones that burn in `grid`; it needs `FInv`
  (a duplicate fire finds its cell already at its full duration).
- *ghost* is shown to be counters on a padded buffer. `Deplie` maps a set of
  indices to the cells they stand for; `IndexDecode` and `IndexInjectif` give each
  index of the buffer one coordinate in the margin of two cells. `GhostInv` is
  `BInv` seen through `Deplie`, plus `EnFold`: marks are indices of the buffer, and
  once the fold has passed a number of the halo the cell it stands for is marked
  too. The fold then leaves `Deplie(ignite)` as it was, and since `HaloEtCible`
  makes every target an interior index, one pass is enough.
- *naive*. `NaiveInv` says that during the spread `ignite` is what the visited cells
  ignite. The turn of the rules is the step that ends the spread (`DecideNaive`):
  each `Apply` afterwards writes a value the mapping already shows.
- *front.* `FrontInv` says that at the places that count each list holds every cell
  of its set once: while a list is compacted these are its first `count` entries
  and those after `k`, while marking the whole list. `marked` is exactly what the
  burning cells read so far can ignite. The capacity follows: a list
  without repetition is no longer than the map has cells (`ListeTient`). Nothing
  to age has run out because an entry after `k` is still in its set. The turn
  of the rules is the step that ends the marking (`DecideFront`).
- *bitpack.* `BitInv` says that every plane is masked (each word within the bits its
  row has), that no cell has two states, that after `k` rows `ignite` is the union
  of the 3x3 squares around the sources of those rows (`LigneAllume`, from the
  shifts with carries and the wrap at the real width: `DecaleAGauche`,
  `DecaleADroite`), and that the count is that of the words already aged.
  `ApresParCellule` reads the bit formulas cell by cell, `CarreSansVent` identifies
  the square with the rules' targets of a cell without wind, and the step that
  spreads the winds, the last of the spread, is the turn (`DecideBit`).
- *All six.* `TousInv` joins these invariants under the name of the engine.
  `TourDesRegles` states once what a step must show of each cell to be a turn;
  `EnginesConformes` is then a case analysis on the engine, and `BurningExact`
  compares each engine's answer with a scan of what its mapping shows.
- *Run and the command.* `RInv` locates the turn at hand between the last snapshot
  taken and the next one due (`Prises`), with products of unknowns handled by
  lemmas on products and quotients. `CInv` follows the profiles, the deferred calls
  and the exit; it says at each step which dropped errors may have happened so far,
  since a failure of the second deferred call must not be read as one of the first.
- *Web.* `IInv`: the holder of the mutex is the only request between `Lock` and
  `Unlock`; what a request has gathered agrees with the engine at each
  of its steps; the engine is behind the map only between the two assignments of a
  reset. The maps drawn are counted to show that none is missing.
- *Store.* `IInv` says which rows a call in progress has written (`EnCours`), and
  keeps the balance of acknowledged rows (`Comptees`). A column of `2 * Demi`
  values, half of them negative, stands for `BIGINT`; `Signe` is the only
  arithmetic. `EmpreinteFidele` compares stored values with the print asked for: that
  the right one was stored in the first place is `Insertion`'s.
- *Ring.* `Rang` gives an entry of the ring its age; the refinement of `Memoire` is
  the ring unrolled from its oldest entry, before and after the write at the wrap.
- *Archive.* `ContenuOK` follows the buffer from the pool to the writer: the
  part already filled is that of the state, the rest is whatever the array held.
  `UnSeulProprietaire` counts: the arrays of the pot and of the `Write` in progress
  are distinct, and there is always a free one among five (`TamponsAssumption`).
- *Reading back.* A `Write` that returns has left the beginning of the file of its
  state, or all of it (`CommenceOK`; it needs `ContenuOK` for what comes next).
  `PackedLu`, `ProtoLu` and `JSONLu` then take any beginning of a file, of a map of
  any size: what is too short is refused, by its length, by a field that lacks words,
  or for want of the brace, which is nowhere before the end of a document; a
  document that lacks only its line feed is complete. The halves of a packed byte
  share no bit, so that their or is their sum (`OuDecale2`, `OuDecale4`), and the
  coordinates of a cell give its index back (`Numerotation`). `EtatOK` bounds the counters
  so that they fit in the bits the format gives them.
- *Generation.* `RangBijectif`: in a finite total order each rank is taken by one
  element, since ranks are an injection into an interval of the same size. Hence the
  entry `i` of a sorted field exists, with at most `i` entries below it
  (`TrieJuste`), and a loop lists each dry cell once (`CroissanteJuste`).
  `QuantileJuste` bounds the part below a threshold in its three cases (both
  infinities, an entry); with `EntiersJustes`, the rounding, it gives both
  theorems on proportions. `GInv` carries, stage by stage, what the thresholds
  were taken on, and of a draw that what is taken and what is left are without
  repetition, disjoint, and make up the dry cells in number. The gaps to the median
  are finite when there is more than one cell, infinite otherwise (`MedianPosee`):
  that is why `Extremes` sets the single cell apart.

Only model-checked: liveness under fairness (`SansVentSEteint`,
`ToutRedevientDisponible`, `RendLaMain`, `NAttendPas`), which is out of the prover's
reach.

## 5. Not modelled

- The console rendering (pure formatting; its failure is an outcome of `Run`'s
  display) and the drawing of the page.
- `Fingerprint` (a read-only hash) and `Dedup`'s rates.
- The registries' filling (done by `init` before `main`, never written again).
- The generated protobuf code beyond the message it carries, JSON's text, SQL's
  text and plans (`Explain`); an empty grid, which no caller builds; an error of
  `MarshalAppend`, which a message without strings does not give.
- Autovacuum, which only makes statistics fresher than `PlanAJour` counts on.
- The arithmetic of floating-point sums, and the determinism of a seed.
- Flags that `flag.Parse` refuses, panics on negative sizes; in the command, the
  signal that kills a process writing to a closed pipe, and the prints of `-list`
  and of the cleared screen, whose errors are dropped too.
- Proportions so large that `int(q * n)` overflows.
- The table of test maps of `firetest.go` (a test), the benchmarks apart from the
  series they archive, the scripts and the report.

## 6. Plan

Rules, engines, driver, command, web, generation, snapshots and store are modelled,
and all the safety properties of the passing runs are proved. What is left to TLC is
liveness.
