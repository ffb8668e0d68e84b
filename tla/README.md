# A verification project for Hydrus

Hydrus is an agent for a Lightning node (LND): on a schedule, or on command, it
closes the channels that serve least, opens channels with well placed nodes in
one batch transaction, and adjusts the routing policies of the channels it
keeps. These modules model what it decides and in which order, TLC checks them
on small instances, and TLAPS proves the most important results for all of them.

Every definition is translated from the Go code; `PROJECT.json` names, for each
one, the lines it stands for. `Lnd.tla` is the exception: LND is not part of
the repository and is described by what Hydrus can observe of it.

## 1. Inventory

| Component | State it keeps | Operations | Interacts with | What is hard |
|---|---|---|---|---|
| `agent` channels task | none between runs; in a run: the snapshot, selected channels and nodes | fee check, `CloseChannels`, `OpenChannels`, `selectNodes`, `skipOpen` | local node, graph, manager, LND | decisions from old data, overlapping runs, goroutines that fail, dry run |
| `agent` candidates | none | `getCandidateNodes`, `discardNode`, `getCandidateChannels` | snapshot, graph, configuration | channels in states no list shows |
| `agent` policies task | none between runs; in a run: height and balances | `UpdatePolicies`, `calculateNewFeeRate`, `calculateNewMaxHTLC` | LND, operator | read-compute-write without isolation, unsigned and floating point arithmetic |
| `agent/local` | the snapshot `Node` | `GetNode`, `ListForwards`, `getChannels` | LND | calls that see different moments, sizes, paging |
| `channel` manager | none; goroutines and streams of one call | `Open`, `Close`, `UpdatePolicy` | LND | one shared context, partial failure |
| `lightning` client | connection | one method per RPC, `ConnectPeer` address by address | LND | time limits, abandoned streams |
| `config` | settings | `Load`, `Validate`, `setDefaults` | all | ranges the arithmetic relies on |
| `graph` | nodes, adjacency list | `New`, `getCentrality`, `getNodeCentrality`, `getEigenvectorCentrality` | LND | a path algorithm, goroutines that share a slice |
| `heuristic`, `graph/heuristic`, `local/heuristic` | lowest and highest value | `Update`, `GetScore` | graph, snapshot | normalisation at the edges |
| `prober` | none | `Probe` | LND | not used by the agent |
| `cmd`, `logger` | none | flags, tables, messages | all | I/O only |

How they interact. `agent.Run` registers two jobs. The channels job takes a
snapshot with `local.GetNode` (seven calls, one after the other), stops if the
chain fee is too high, closes through `channel.Manager` and then opens, always
from the same snapshot. The policies job takes a snapshot and goes through the
public channels. The commands `channels close`, `channels open` and
`channels update-policies` run the same code in another process. Nothing
coordinates two executions and nothing is persisted.

What makes each of them correct:

* channels task: the number of channels stays between the configured bounds;
  batches are covered by the allocated balance; a run does not reopen what it
  closes, does not open before it has closed, does not touch what is kept; it
  returns;
* policies task: nothing wraps, every channel is reached, an idle channel gets
  cheaper and never dearer than somebody has set it;
* paging: all the events once and in order;
* graph: distances, path counts and dependencies are those of the definitions,
  and concurrent additions are not lost;
* heuristics: scores between zero and the weight, also at zero, in an empty range
  and for negative fees; something better never scores lower;
* selection: the worst channels are closed and the best nodes opened to, as far
  as force closes and connections allow; no score is a division by zero;
* configuration: `Validate` admits only what the arithmetic can bear.

`PROJECT.json` lists every hazard with the line where it bites and the
properties that cover it.

## 2. Plan

Done, in this order: `Lnd`, `Sizing`, `Agent`, `ChannelBudget` with their proofs;
`FeeRule`, `Policies` with proofs; `Forwards` with proofs; `Paths`, `Search`,
`Centrality` and the proof that its additions are atomic; `Heuristic`, `Config`,
`Closing` (on top of `Forwards`) and `Opening` (on top of `Paths`) with proofs;
then the theorems about sums, walks and shortest paths and, with them, the
remaining invariants of `Closing`, `Opening`, `Search` and `Centrality`, and those
of a single executor in `Policies` and of losses in `Agent`; last, sums over two
variables, the paths through a node and Brandes' equation, with which the
dependencies of `Search` are proved.

Next:

1. Repeating runs in `Agent` (a scheduler that starts the next one): starvation
   of opening by a closure that always fails, and of the policies of channels that
   are listed after one whose update always fails.
2. `Agent` composed with `Closing` and `Opening`. Today they meet in their
   interface only: `Agent` takes any candidates in any order, the other two say
   which ones and in which order.
3. Time limits of the client calls that `Lnd` answers.

## 3. Modules

| Module | Models | Correspondence |
|---|---|---|
| `Lnd` | LND as seen through `lightning.Client` (external) | status of channels, accepted requests, peers, height; environment switches |
| `Sizing` | end of `local.GetNode`, `skipOpen`, amount in `selectNodes` | pure operators; `Word` is 2^64 |
| `Agent` | channels task, commands `close` and `open` | see below |
| `ChannelBudget` | what the above promises about the number of channels | abstract specification that `Agent` implements |
| `FeeRule` | `calculateNewFeeRate`, `calculateNewMaxHTLC` | pure operators; sets where rounding may show |
| `Policies` | policies task, command `update-policies` | see below |
| `Forwards` | `local.ListForwards` | one action per page, log and clock around it |
| `Paths` | nothing: the definitions of distance, betweenness and so on | reference for `Search`, `Centrality` and `Opening` |
| `Search` | `getNodeCentrality` | one action per visited node, per edge and per node taken back |
| `Centrality` | `getCentrality`, `getEigenvectorCentrality` | one goroutine per node, mutex, reads and writes of the shared slice |
| `Heuristic` | `heuristic.Heuristic`: `New`, `Update`, `GetScore` | pure operators on records |
| `Config` | `setDefaults`, `Validate`, the weights | pure operators on the settings |
| `Closing` | `config.Load`, `ListForwards`, `getChannels`, the channel heuristics, `getCandidateChannels`, `selectChannels` | one action per call or turn of a loop; contains `Forwards` |
| `Opening` | `graph.New`, the node heuristics, `getCandidateNodes`, `selectNodes`, `ConnectPeer` | one action per edge, node, candidate and address; measures nodes with `Paths` |
| `MCAgent`, `MCPolicies`, `MCSearch`, `MCCentrality`, `MCClosing`, `MCOpening` | | small instances |
| `Arithmetic`, `MeasureProofs` | | lemmas about numbers, sums and sets; about `Paths` and `Heuristic` |
| `AgentProofs` (with `Sizing`, `ChannelBudget`), `PoliciesProofs` (with `FeeRule`), `ClosingProofs` (with `Forwards`, `Config`), `OpeningProofs`, `SearchProofs`, `CentralityProofs` | | theorems of the component they are named after |

**Agent.** `Runs` are executions. `pc[r]` is the call a run is about to make,
`node[r]` the snapshot, filled by one action per LND call whose answer can age
(`GetInfo`, `ListChannels`, `ListPeers`, `ClosedChannels`); LND may move between
any two. `EstimateTxFee` is the comparison with `max_sat_vb`. `CloseChannels`
selects any allowed set of channels: scores order candidates and nothing else
depends on them. `closer[r][c]` is the goroutine of `manager.Close` for a
channel: the call, the wait on the stream, an answer or an error, where an error
cancels the context that all of them share. `CloseWait` is `errgroup.Wait`.
`OpenChannels` filters the candidates (`DiscardNode` is `discardNode`, test by
test), `TryPeer` is one turn of the loop in `selectNodes`, `Open` sends the
batch. `Abort` is any error, cancellation or crash: a run has no state that
outlives it, but what it has asked of LND may (`"orphans"`).

**Lnd.** A channel goes from `unused` through `pending`, `open` and `waiting`
(closing transaction unconfirmed) to `closed`, or to `canceled` (`unnamed` if it
never got an id). The three lists that Hydrus reads show different parts of that:
`GetInfo` counts pending and open, `ListChannels` only open, `ClosedChannels` only ended ones. A batch is all
or nothing. `Environment` says what happens besides Hydrus: `losses`, `gains`,
`flaps`, `orphans` (LND carries on with a request whose caller is gone) and
`overlap` (several executions at once).

**Policies.** A run reads the height, then balances and channels, then per
channel the policy (`GetChanInfo`) and, after the forwards, computes and writes
(`UpdatePolicy`). The forwards are an input. Unlike in `Agent`, an executor
starts again when it has returned. An error of `GetChanInfo` goes on with the
next channel, one of `UpdateChannelPolicy` ends the run, as in the code.

**Closing.** The way to the channels that one run closes. `Load` completes a file
with `SetDefaults` and accepts or refuses it. `GetInfo` sets the number of
channels, from which `Sizing` computes `MaxCloseChannels`. `ListingForwards` is a
step of `Forwards`: the log is read page by page while it grows. `AddChannel` is a
turn of the loop in `getChannels`: a public channel is measured from what was read
of the log and of its peer, and every heuristic is updated with it. `Rank` is the
guard of `CloseChannels` and `getCandidateChannels`; `SelectChannel` is a turn of
the loop in `selectChannels` that goes on, `Selected` the one that breaks.
`Agent` takes over from here: which channels it gets is left open there.

**Opening.** The way to the nodes of a batch. `AddEdge` reads an edge of
`DescribeGraph` and keeps the sides that `discardChannel` lets pass, `EdgesRead`
gives up when more than half of the edges have no policies, `AddNode` leaves out small nodes
and builds the adjacency list, `AddCentrality` measures a node and updates the
heuristics. Betweenness, closeness and eigenvector values are those of `Paths`,
which `search` and `centrality` show to be what the code computes. `Rank` scores
the nodes that `discardNode` (the set `Discarded`, in detail in `Agent`) has left,
`TryCandidate` is a turn of the loop in `selectNodes`, `Connected` and `Refused`
are the answers to one attempt of `ConnectPeer`. A score that is no number makes
any order possible (`Ranked`).

**Floating point.** `FeeRule` computes exactly and, where a quotient that is an
integer may come out just below it, returns both truncations. `Search` and
`Centrality` count in units of `1 / Scale`, which divides every quotient of the
instances. `Heuristic` counts weights and scores in units of `1 / One` and rounds
quotients down; final scores are rounded to `Grain`, as the code rounds to
thousandths. The rounding of floating-point sums is not modelled.

## 4. Runs

| Run | Shows |
|---|---|
| `agent_alone` | two runs of any kind one after the other: types, the invariant of the count, funding of batches, refinement of `ChannelBudget` |
| `agent_losses` | with peers that close, canceled funding and flapping connections: only listed channels are closed, no peer of a channel that was closed, or canceled after it got an id, in the last three months gets a new one, batches end below `max_channels` |
| `agent_overlap` | two runs at once, peers that open channels, abandoned requests: the inductive invariant, nothing closed is reopened, opening waits for closing, every started run returns |
| `policies_single` | one executor, moving balances, a channel LND knows nothing of: types, no change is skipped, idle fees only fall and vanish in the end |
| `policies_overlap` | two executors and an operator: idle fees stay capped |
| `closing` | accepted settings are usable, paging is complete, channel scores stay in range, the worst channels are closed and none that is at least as good everywhere as one that is kept, unless they score the same |
| `opening` | every ranked node has a score unless the network holds less than a satoshi per node, scores stay in range, a batch has connected nodes only and the best of those that can be connected |
| `search` | distances, path counts and dependencies are right at the moment they are used |
| `centrality` | no addition is lost nor based on an outdated value, the goroutines end; eigenvector values count walks |

Runs that TLC refutes, each about a sentence of the documentation or a comment
that the code does not keep (quoted under `findings`):

| Run | The code |
|---|---|
| `doc_max_channels` | two overlapping executions exceed `max_channels` |
| `doc_canceled` | a peer whose funding was canceled before the channel had an id is tried again at once, not after three months |
| `doc_old_channels` | a channel newer than the snapshot's height counts as old |

Other sentences that the models contradict, without a run of their own:

* a peer whose channel is pending may get a second one: `ListChannels` does not
  show it ("The algorithm will avoid opening channels to nodes that are already
  connected to the host", repository README line 51);
* a peer whose closure is not confirmed may get a channel in the next run: it is
  in neither list of `discardNode` ("Nodes we have recently closed a channel with
  will be discarded", repository README line 49);
* a peer that makes LND refuse a batch is only discarded "for the next 3 months"
  (repository README line 35) if LND lists a canceled channel for it: Hydrus itself
  keeps nothing, and after `BatchReject` the next run selects the same peers;
* closeness is not that of "the sum of the shortest path distances [...] to all other
  reachable nodes" (`docs/centrality.md` line 25): `getCentrality` breaks at the first
  node out of reach (`Summed`), so that the sum depends on the order of the graph and
  is zero where the node of index zero cannot be reached;
* a batch may be smaller than `min_batch_size` when peers cannot be connected
  (`docs/config.md` line 76);
* a dry run connects LND to the candidates (`docs/config.md` line 70);
* the keeplist is compared with channel points, not with public keys
  (`docs/config.md` line 72);
* a closure that a failed run has left with LND adds to those of the next one,
  which may pass `min_channels` (README line 76), if LND carries on with it;
* of two executors, the one that read first may write last, and raise the fee
  rate of an idle channel (README line 84) or undo a base fee that the operator
  has set (README line 93);
* a channel is kept when its score is above a half of the weights, not above 0.3
  (comment in `agent.go` line 251);
* a value of zero scores best or worst whatever the range (`docs/heuristics.md`
  line 10): no inbound fee scores better than a small discount where larger
  discounts exist;
* a file that gives one weight of a group sets the others of it to zero, and one
  that gives one of the two intervals is refused;
* an exhausted channel is one below 5% and gets 5,000 ppm, not 1% and 2,100 ppm
  (README line 82).

### Bounds

* `Slots` (channels a peer may have had): 2 allows a second channel beside or
  after a first one; 1 where a property is about single channels.
* Two or three peers: enough for a batch of two besides an existing channel, for
  a channel that is closed and one that stays, and for shared peers.
* Two runs: every property relates at most two of them. Runs in `Agent` happen
  once each; the second one starts in any state the first can leave.
* `StartHeight`, `MaxHeight`, `ThreeMonths` 1 or 2, `OneWeek = 1`: blocks are
  scaled so that "recent", "old" and "newer than the snapshot" all occur.
  `HeightWord` is larger than every height, as 2^32 is.
* Channel sizes 20 to 45. `agent_alone`: balances 30, 100 and 200 at 30 percent, of
  which 0, 30 and 60 are allocated: no channel, one where there is room for two
  (`maxOpenChannels` is cut to what the balance can fund), or two. The others:
  balances 30 and 100 at 50 percent. Below and at the maximum size. `Word = 1000` is never
  reached, as 2^64 is not by sensible settings.
* `SharingFloor = 2` instead of 10, so that the test of shared peers applies.
* `FeeWord = 64` and `DrainedFee = 50` scale 2^32 and 5,000, so that a wrap or a
  lost reduction to the word is within reach.
  `Fees` are below and above `minFeePPMUpdate`. `Balances` are below 5, between,
  and above 95 percent.
* `closing`: `MaxForwardingEvents = 2`, logs of up to 4 events and two seconds: no
  page, a full last page, an extra empty page and growth in the same second.
  Twelve files (bare, sparse, and one for most tests of `Validate`), of which
  those with defaults or a few weights are accepted. Four channels, one private
  and one kept, with four reports: both values of what is yes or no, no ping
  time, a peer that has just connected and one that is not listed, so that equal
  values, zeros and both ends of a range occur.
* `One = 60`, `Grain = 4`: every default weight is a whole number of units, and two
  scores may be rounded to the same. `MaxInt = 1000000` is above every value.
* `opening`: three nodes and three edges, the last of which may be parallel to the
  first or lead to a node that is not listed; policies that are unknown, disabled,
  too dear, with an inbound discount; capacities of less and more than one satoshi
  per node; nodes without an address, with one and with two; one node is a peer
  already; batches of up to two.
* `search` takes all directed graphs of four nodes, with parallel channels at
  one node: the smallest with two shortest paths of the same length.
  `centrality` takes six networks of three nodes and two of three goroutines at a
  time, so that one waits for a processor and another one for the mutex.

`CHECK_DEADLOCK FALSE` stands where the system does stop: runs in `Agent` are
used up, one run in `closing` and in `opening`, one search, one set of goroutines. The
policies runs check for deadlock. `agent_overlap` has no `losses`, which would
multiply its states; the theorems about its invariants have them.

### Fairness

`agent_overlap`: a run goes on while it can (Go schedules its goroutines) and LND
answers what it has accepted: a closure is broadcast or its stream ends, a batch
is answered. The code has no time limit on the stream, so without the second
half the property is false. Errors, crashes, peers and blocks are never forced
to happen. `policies_single`: the job is started again and again and LND answers;
channels, balances and blocks are not forced. `centrality`: goroutines that can
go on do.

## 5. Proofs

All theorems hold for every value of the constants under the named assumptions of
the modules: `LndAssumption`, `AgentAssumption`, `ConfigAssumption` (what
`Validate` and `setDefaults` leave), `FeeAssumption`, `PoliciesAssumption`,
`ForwardsAssumption`, `HeuristicAssumption`, `ClosingAssumption`,
`OpeningAssumption`, `PathsAssumption`, `SearchAssumption`, `ExactAssumption`,
`CentralityAssumption`. Assumptions of single theorems, about the environment,
are named with them below. Every invariant and every action property that a
passing run checks is proved.

**`Arithmetic`** holds what all the others need: division, the least element of a
set of natural numbers, and sums. The induction theorems of the library take an
operator, which no prover here can instantiate; `NaturalInduction` and
`FiniteInduction` are therefore stated with a set ("a set that has zero and, with
each number, the next one, is `Nat`"), and what recursive functions compute is
proved with them: that they exist (`SumsExist`), that their order does not matter
(`SumStep`), what a sum becomes with one more element. A second part is about
sums of products: sums add up and can be multiplied (`SumPlus`, `SumTimes`), the
order of two summations does not matter (`DotAssociates`), and a table `q` with
`q = 1 + qm` also has `q = 1 + mq` (`FirstStep`).

**`MeasureProofs`**, about `Paths` and `Heuristic`. `WalksAre` characterises the
enumeration of walks by its steps, `WalksCounted` counts walks from their first
step, `DistanceLeast` and `Predecessor` say what a distance is, and `AlongMore`
how many shortest paths one more channel adds. The shortest paths through a node
are counted by their last step (`OnwardByLast`) and therefore, with `FirstStep`, by
their first step after that node (`OnwardByFirst`); `DependencyIs` turns this into
Brandes' equation: the dependency on a node is the sum, over its channels to
nodes one step further, of what these hand on. `ScoreBounds` and `ScoreOrder` are
about `Update` and `GetScore` alone: a value that the range has seen scores
between zero and the weight, and of two values that are not negative the better
one scores no less. `UpdatesCover`: a range that a fold has given every value
covers every value.

**`AgentProofs`**. Lemmas about the sizing operators come first. `Inv` is the
inductive invariant, under any environment and any overlap. `TypeOK` alone is not
inductive: that our own node is not in a batch needs `NewPeers` (what candidates
can be), that a batch can be funded needs `BatchFits` (`skipOpen` has been passed,
with the same snapshot), that nothing closed is reopened needs `KnownPeers` (the
peers of the channels being closed are in the snapshot that `discardNode` uses),
that opening follows closing needs `Answered`. From it: `TypeCorrect`,
`BatchesFunded`, `NeverReopens`, `OpensAfterClosing`. `BatchFunded` has the
condition `NoWrap`, since `Validate` sets no upper bound for
`max_channels * min_channel_size`. Two results have an invariant of their own
beside `Inv`: `ProtectedNotClosed` (`Spares`: what is selected is in the snapshot's
list, which leaves out private channels, and not in the keeplist) and
`RecentlyEndedAvoided` (`Remembers`: a candidate has passed `discardNode` against
the closed channels of the snapshot). The latter is about channels that were closed
and those canceled with an id, whose height `discardNode` can read (`Reported`);
what LND adds after the snapshot is not older than it. For channels canceled
without an id the run `doc_canceled` shows the contrary.

`ImplementsBudget`: `Agent` implements `ChannelBudget` with `channels` mapped to
the number of pending and open channels, in a calm environment (no losses, gains,
orphans or overlap; `Calm` in the module). The argument is `BudgetInv`: only one
run is alive, LND holds nothing of others, and the channels that count together
with those being closed are as many as the run has counted, until its batch is
answered; `CountKept` states it as a theorem. The run `doc_max_channels` shows that
the calm is needed. `OpensKeepMax` does with less: channels may be lost and peers
may flap, and still no batch passes `max_channels`. Its invariant `RoomInv` is an
inequality: until a batch is answered no more channels count than the run has
read, which losses can only help. It assumes `Closed`, that there are no gains,
orphans or overlap.

**`PoliciesProofs`**. `NewFeeRatesBounded` bounds one step of the fee rule;
`TypeCorrect` and `QuietCapped` follow from `Inv`, which says in addition that
what a run has read of an idle channel is capped: needed because it is written
later, over whatever is there by then. `NothingSkipped` (`Applied`) and
`QuietFall` (`QuietFeesFall`) are about a single executor (`OneRun`), the first
without errors, new channels and dry runs, the second without an operator. Both
need that what the run has read is still LND's policy when it writes
(`ReadHTLCStands`, `ReadFeeStands`), which a second executor breaks.

**`ClosingProofs`**. `PagesComplete` for every page size: `Complete` is inductive
with `atCall <= matched` and the emptiness of a call that has not begun.
`SettingsUsable` shows that `ConfigAssumption`, which the sizing lemmas take for
granted, follows from `SetDefaults` and `Valid`; `NoWrap` does not.
`WorstAreClosed` follows from `WorstFirst`: what was looked at and not chosen
cannot be closed, and what is chosen scores no higher than the rest.
`ListsForwards` is a refinement: every step of `Closing` is one of `Forwards` or
leaves it alone, so that `PagesComplete` holds here. `RangesCover` relates the
heuristics to the channels that have been measured: the range of a heuristic with
a weight covers each of them, weights are those of the configuration, and nothing
is selected before all is measured. Together with the types it is inductive
(`ClosingTypeCorrect`), and `ScoresWithinWeights` follows with `ScoreBounds`.
`WorseIsClosed` (`NoBetterClosed`) follows from it with `ScoreOrder`, monotonic
rounding and `WorstClosed`.

**`OpeningProofs`**. `Addressed`: a node that was kept has an address, so that
`ConnectPeer` cannot return without having tried one. `TriedFirst`: what has been
passed over was refused at every address but those untried, and nothing left scores
higher than what was taken. `BatchIsConnected` and `BestAreOpened` follow. The
types need more (`TypeInv`): `Large`, no node is kept below the average capacity,
so that with a satoshi per node in the network a kept node has a channel and its
score is a number (`ScoresAreDefined`), and `Covered`, the ranges cover every value of the nodes and
channels the loop has come past (`OpeningScoresWithinWeights`).

**`SearchProofs`**. `ShortestAreFound` and `SearchTypeCorrect`, for every multigraph.
The inductive invariant while the search lasts is `Breadthfirst`: nodes enter the
queue once and in the order of their distance, none of them more than one step
behind the node being visited (`Breadth`); the channels still to be looked at are
the last ones of that node (`Remaining`); every distance that is set is right, and
the number of paths to a node is that of the shortest paths whose last step has
been looked at (`Followed`). What `ShortestFound` promises follows because all last
steps to a node come from nodes that are visited before it (`VisitedCounted`), and
because nothing within reach is left when the queue is empty (`AllFound`).
Afterwards `Searched` keeps it while the dependencies are handed back.

`DependenciesAreRight`, for every multigraph too. The code never looks at a path: it
hands a share of a node's value to each predecessor, last found first. `Dependent`
is the inductive invariant: while the search lasts, `pred[w]` has a node once for each
of its channels to `w` that has been looked at and is a last step (`Entered`); once it
is over, what a node has been given comes from all those that are no longer in
the stack, and these have all they will get (`Returned`), because whatever can hand
something to a node is further away, hence behind it in the stack. What arrives is
the right side of Brandes' equation, and `DependencyIs` says that its solution is
the definition. The code divides real numbers; here quotients are integers, and
`ExactAssumption` says that none is rounded: every number of shortest paths from
one source to one target divides `Scale`. For any finite set of lists there is
such a `Scale` (the least common multiple of those numbers), and TLC evaluates the
assumption for the four-node graphs of `search`. With `ShortestAreFound` this is what
`Centrality` takes for the result of a search, whose values it defines by the same
operators of `Paths`.

**`CentralityProofs`**. `MutualExclusion` (at most one goroutine holds the mutex, as
its `pc` says) is inductive, and from it `AdditionsKept`: what is written to the
shared slice is one addition to what is there, for any network and any number of
processors. `NothingLost` (`SumsComplete`) needs `AddedUp` in addition: every element
is the sum of the results of the goroutines that have come past it, so that in
the end it is the sum over all of them. `WalksAreCounted`: the rounds of
`getEigenvectorCentrality` count walks, by the recursion of `WalksCounted`.

Only model-checked:

* liveness (`RunsReturn`, `IdleFeesVanish`, `Finishes`), which is out of the
  prover's reach;
* that the values fit where `Opening` takes what `Centrality` ends with. Both name the
  same operators of `Paths`; no module runs one inside the other.

## 6. Not modelled

* Connection, TLS, macaroons, logging, parsing of flags and files, tables of the
  `scores` commands, `prober`, images and service files: I/O without decisions of
  the agent.
* The rounding of floating-point sums: `Heuristic`, `Search` and `Centrality` count in
  units of a fraction, so that two scores that differ in the last bits are equal
  here, and in any order.
* The width of integers in the heuristics: values of channels and nodes are far
  below 2^63.
* The exact age limits in time (one month, one day): inputs are any amounts.
