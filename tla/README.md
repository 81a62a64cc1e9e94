# NN-eBPF in TLA+

NN-eBPF classifies the TCP connections of one host inside the Linux kernel: XDP
programs extract features per connection and, when a connection ends, run a small
quantised neural network over them. The network can be replaced while the
programs run. This directory models that system, checks the models with TLC and
proves the central ones with TLAPS. Everything is translated from the code in
`src/src/`; paths below are relative to `src/`.

## The system

| Component | Source | State | Operations |
|---|---|---|---|
| Model slots | `src/params.bpf.h` | `nn_parameters`: two slots with a `struct Net` each; `nn_idx`: the slot in use; both pinned under `/sys/fs/bpf` | read by the XDP programs, written by `hot_updating`, created and unpinned by the loader |
| `hot_updating` | `src/hot_updating.c` | its descriptors, `new_nn_idx`, the network compiled into it | open both pins, read the index, write the other slot, set the index |
| Feature extraction | `src/handler.bpf.h`, `src/common.h` | `flow_map`: one `struct flow_attribute` per connection, 8192 at most, shared by all CPUs | `init_flow_attribute`, `update_flow_attribute` |
| Detection pipeline | `src/xdp.bpf.c` | `progs`: the tail-call table; `nn_idx`, `hidden1`, `hidden2` in the flow's entry | `xdp_prog` and six programs chained by tail calls |
| Arithmetic | `src/mlp.bpf.h` | none | `standard_scaler`, `linear_layer`, `relu` in fixed point |
| Loader | `src/xdp.c` | the BPF object, the link to the interface, `exiting` | load, fill `progs`, set `nn_idx`, attach, wait for SIGINT, clean up |
| Export | `src/mlp_quant.py` | none | rounds a trained network to integers and writes a C header |
| Training | `src/mlp.py`, `src/mlp_train.py` | none | fits the network offline |
| libbpf, bpftool | `libbpf/`, `bpftool/` | vendored | libbpf creates, reuses and pins the maps when the loader loads the object |

The components interact through shared kernel maps only. Nothing takes a lock,
and apart from the loader almost nothing reacts to an error:

- Packets of one connection normally arrive on one CPU, but nothing guarantees
  it. XDP programs on several CPUs change the same `flow_map` with plain loads and
  stores.
- A detection is a chain of six programs on one CPU. What they share from one
  tail call to the next is the flow's entry, which the other CPUs can reach as
  well. The slot index is read once, at the FIN or RST.
- `hot_updating` runs in user space at any time, perhaps twice at once, can be
  killed between system calls, and copies a slot while programs read.
- The loader is killed by everything but SIGINT, returns early from most errors and
  leaves the pins; when it does clean up, it removes the pins one by one and
  empties the tail-call table while `xdp_prog` is still attached.

What makes each component correct:

- *slots*: the slot in use is always one whole network, the last one deployed;
- *detection*: one verdict is computed by one network, in all its stages, from
  the features at the end of the connection;
- *features*: they are those `common.h` documents;
- *deployment*: the pins lead to the maps that the attached programs use, the
  network in use changes only when one is deployed, SIGINT ends the loader;
- *arithmetic*: it approximates the real-valued network within a known error and
  range.

The hazards behind these properties are listed line by line in `PROJECT.json`.

## Modules

| Module | Models | Extends or instantiates |
|---|---|---|
| `ModelRegister` | abstract: the network in use as a register | |
| `ModelSlots` | the two slots, `hot_updating`, the loader's cleanup | `ModelRegister` |
| `ModelSlotsProofs` | theorems about `ModelSlots` | `ModelSlots` |
| `AtomicDetection` | abstract: a detection as one operation | |
| `Detection` | the detection pipeline beside `ModelSlots` | `ModelSlots`, `AtomicDetection` |
| `DetectionProofs` | theorems about `Detection` | `Detection`, `ModelSlotsProofs` |
| `DetectionAtomicProofs` | `Detection` implements `AtomicDetection` | `DetectionProofs` |
| `FeatureTable` | abstract: one step per packet on the features of its flow | |
| `FlowFeatures` | `update_flow_attribute` on several CPUs | `FeatureTable` |
| `FlowFeaturesProofs` | theorems about `FlowFeatures` | `FlowFeatures` |
| `FlowFeaturesRacedProofs` | theorems about `FlowFeatures` when CPUs overlap on a flow | `FlowFeaturesProofs` |
| `FlowTuple` | which frames are looked at, and under which flow they are filed | |
| `FlowTupleProofs` | theorems about `FlowTuple` | `FlowTuple` |
| `Deployment` | executions of the loader and of `hot_updating`, with all the maps they create | |
| `DeploymentProofs` | theorems about `Deployment` | `Deployment` |
| `MCDeployment` | symmetry of `Deployment` for TLC | `Deployment` |
| `MCDetection` | symmetry of `Detection` for TLC | `Detection` |
| `FixedPoint` | operators: the integer arithmetic of the kernel and of the exporter | |
| `Inference` | the numbers: export, deployment and the stages of a detection | `FixedPoint` |
| `InferenceProofs` | theorems about `Inference` | `Inference` |
| `MCInference` | networks and features for TLC | `Inference` |

A definition whose comment begins with *Mutant* is not part of a specification. It is
a wrong version of the definition after it, which a property must tell from
the right one.

### ModelSlots

`nn_parameters`, `nn_idx` and `pins` are the kernel's state; `upd` holds a record per
process with its program counter, its valid descriptors and its locals. The
actions are the system calls of `hot_updating.c` in program order: `Launch` (first
`bpf_obj_get`), `OpenIdx`, `LookupIdx`, `CopyArray` (one step of the kernel's
`memcpy` of a slot, per array of `struct Net`, in any order), `Publish`, and `Kill`
between calls. A descriptor that could not be opened is carried along as in the
code: the lookup then leaves the local index 0, an update does nothing. A network is the
number of the execution that deploys it; 0 is the content of a fresh map. The
model starts where the loader attaches. `RemovePin` is its cleanup.

`solo` and `published` are history: the execution that set `nn_idx` last, and
whether it overlapped another one. `Orderly` says that it did not and that the
cleanup has not begun. Both conditions are necessary. With two overlapping
executions both write the same slot and one of them writes it after the other
has made it current. With only the first pin removed `hot_updating` turns the
index without having written a slot.

`SlotsAreARegister` is the refinement of `ModelRegister` with `net` the arrays of the slot
that `nn_idx` names and `trusted` the condition `Orderly`. A solo `Publish` is `Deploy`;
everything that breaks or restores order without one is `Disturb`; all other steps
stutter. In the register a deployment replaces five arrays at once by a *newer* network.

### Detection

`flow_map` keeps, per flow, the number of packets (standing for the features), the
entry's `nn_idx` and the vectors `hidden1` and `hidden2`. A vector is symbolic: the
last layer applied, from how many packets, with which network; a layer applied
to a vector it is not meant for yields `Junk`, and so does scaling with the mean
of one network and the scale of another. `xdp_prog_Data`
and `xdp_prog_End` are `xdp_prog` without and with FIN or RST; each of the six
chained programs is an action of the same name, which runs at once, as tail calls
are the points where the others are let in. That is the grain at which this module
looks at the entry; the grain of single loads and stores is that of `FlowFeatures`.
An entry is never deleted, so the lookups in the chained programs
cannot fail. `ClearProgs` is the effect of closing the last descriptor of the tail-call
table, which `xdp_bpf__destroy` does after the cleanup and a kill of the loader at any time,
with the pins still there.

`trace` is what the last program prints, beside what it should print: the verdict of
the network in use at the FIN or RST on the features of that moment. `base`
remembers that situation and whether it stayed undisturbed: no second CPU working
on the same flow, at most one execution of `hot_updating` during the detection,
orderly slots at its start, no cleanup. Each of these conditions is necessary;
`VerdictExact` fails without it.

`DetectionIsAtomic` is the refinement of `AtomicDetection`. A CPU in the chain has a pending
detection, which owes a verdict as long as it is undisturbed and may print anything once it
is `Spoilt`; `network` is the network published last, `serving` whether the tail-call table
is complete. `xdp_prog_End` is `Begin` (or `Pass`), the programs that hand on stutter,
`xdp_output_linear` is `Report`, and a tail call into an emptied table is `Drop`, which is
not allowed while the table is complete. `AtomicDetection` states safety only; that a
detection ends is `DetectionCompletes`.

### FlowFeatures

One packet is `Receive` (its length is computed and the clock read), `Lookup`, perhaps
`Insert`, and then a `Load` and a `Store` per field in the order of the code; a minimum or
maximum that stands is not stored, and for the duration the entry is loaded twice
(`LoadTime`, `Compare`). Numbers are modulo `Word`, and compared unsigned, as C does
with a `u64` operand. `packet_length` is what `xdp.bpf.c:94` computes, an `int` that nothing
checks and that wraps to almost 2^64 if the total length of a packet does not cover its IP
header; packets may have any total length and header length. `FeaturesAssumption` says what
keeps the other true values inside the word: the clock stays below it (2^64 ns are 584 years of
uptime), `tot_len` and `ihl` are fields of 16 and 4 bits, so that a length that does not wrap
is below the initial minimum and one that does is above it, a TCP
header has 60 bytes at most, and the headers of one flow add up to less than the word. `hist`
has the packets of every flow, `sent` the bytes of their TCP headers, `raced` the flows of
which two CPUs ever handled packets at the same time. `dst_port` is in `FlowTuple`; the
profiling fields, which only the wording of the trace line uses, are left out.

`FeaturesExact` says what a wrapped length does. The count, the durations and the header bytes
stay exact. The minimum is that of the packets whose length did not wrap (`Payloads`), since a
wrapped one is greater than any of them. The maximum is that of all lengths as unsigned words:
the true one until a length wraps, and from then on the wrapped one, a negative number in the
`s64` field, which is not the "Maximum length of a packet" of `common.h:8`.

`UpdatesAreAtomic` is the refinement of `FeatureTable`. The features of a flow are those its
entry has once the packet in progress is done (`Settled`), so that a packet takes effect
when its entry is found or made: that is `Packet`, and every load and store after it
stutters. No field is computed from one that is stored before it, so `Completed` says of each
field by itself whether it still has to be updated. `Race` takes a flow out of the promise
when two of its packets overlap; that leaves the other flows bound by it.

### FlowTuple

`xdp_prog` for one frame after another, as far as it depends on what the frame is: the checks
of `flow_tuple` one by one (length, protocol, again length), the filter on the monitored
host, the entry with the fields taken from the TCP header, and whether a detection starts.
Ports are 16-bit words in network byte order; `dst_port` has its bytes swapped. The code reads
the TCP header 20 bytes after the start of the IP header, wherever it is: `tcp` is the
header of a frame, `at20` what is found there, and they differ when there are IP options.
`received` is what really came in. `FlowsAreConnections` is about all flows that have had
nothing to do with IP options; `HeaderLength` is about all, and is violated.

### FixedPoint and Inference

`FixedPoint` has the three functions of `mlp.bpf.h` with C's conversions at widths given by
constants, wrap-around included, and the rounding and flattening of `mlp_quant.py`.
`Inference` follows a trained network through `Export`, `hot_updating` and the six programs
of a detection, each an action on the two scratch vectors, which keep what an earlier
detection left in the elements that nobody overwrites.

The reference is the network of `mlp.py` on features standardised as in `mlp_train.py`, in
rational numbers: trained weights are multiples of `1 / Unit`, means and scales of 1/2. For
every stage `Scaled`, `Input`, `Hidden` and `Output` give the exact values, with a common
denominator, and bounds on how far the kernel's integers may be off. The bounds add up what
explains a difference: half a unit for each rounded weight times its input, the error of the
input times the weight, less than one for a shift or division, the rounding of mean and
scale. `Denominator` is a common multiple of the scales in use, and `cut` in `Layer` reduces
the fraction by `One` where that is exact, so that TLC's numbers stay small; neither changes
the fractions themselves. `fits` says that no intermediate value within those bounds can
leave its type, nor a parameter the type it is stored in. Nothing is claimed of a detection
that does not fit, nor of a label whose logits are closer to each other than their errors.

A feature whose scale was rounded to 0 is divided by 0, which gives 0 in BPF: it counts as
if it had its mean, and so it does in the reference. There are no biases: so a network exported
with a number of fractional bits that is not the kernel's 16 has all activations of a layer
scaled by one power of two, which ReLU and the comparison of two logits do not notice. This is why
`LabelRight` holds for `Factors` other than `One`.

### Deployment

Several executions of the loader and of `hot_updating`, each system call a step. Maps
are identified by the loader execution that created them, so that stale
descriptors, pins that outlive a crash, and maps that nobody can reach any more are
told apart. The loader follows `xdp.c` and, for the load, `bpf_object_load`,
`bpf_object__create_maps` and `bpf_object__reuse_map` of the vendored libbpf: reuse if
the pin exists, else create and pin, retry once on `EEXIST`, and on failure unpin
what this load pinned; then `main` removes both pins, whoever they belong to.
`ReturnEarly` are the `return 1` between load and main loop. `Kill` is any signal but
SIGINT. `Sigint` can come at any time, repeatedly, and cuts a sleep short that has begun. The
main loop has three states, so that a SIGINT can come between the test of `exiting` (`Check`)
and the sleep (`FallAsleep`): the loader then sleeps with `exiting` set, and only the end of
`sleep(60)` (`Wake`) gets it to the test again.

`Serving` are attached loaders whose execution overlapped no other loader's, from the attach to
the end of the process: through the main loop and through the cleanup, in which the programs
still run while the pins go one after the other. A second loader can do harm in ways the code neither documents nor prevents: it
sets the shared `nn_idx` to 1 before it fails to attach, and if its load fails it removes
the pins. `ServedModelSteady` is therefore about executions that do not overlap, after any
history of overlaps and crashes. An execution of `hot_updating` that meets the cleanup may have
opened both maps, or neither, and then deploys its network or does nothing. If it has opened one
only, it turns the index without having written the slot, or writes slot 1 without knowing which
one is in use; `sole` leaves it out, as nothing in the repository promises otherwise.
`PinsFollowLoader` also covers a serving loader beside
others that start, reuse its maps, fail to attach or crash, until one of them removes a
pin (`kept`).

## What is checked

| Run | Question |
|---|---|
| `slots` | `SlotsTypeOK`, `ActiveWhole`, `NoRollback`, `SlotsAreARegister`: is the slot in use always whole and current? |
| `detection_swap` | `DetTypeOK`, `VerdictExact`, `DetectionCompletes`: does a detection survive a hot update, of up to three around it, and does it end, also when the tail-call table is emptied under it? |
| `detection_cpus` | `DetectionIsAtomic`: do detections on two CPUs keep out of each other's way, and do two of one flow that overlap spoil a later one? |
| `features_table` | `TypeOK`, `FeaturesExact`, `UpdatesAreAtomic`: are features exact, also when the table is full, and does a race on one flow leave the others one step per packet? |
| `features_races` | `FeaturesExact`, `NothingInvented`, `NoReset`: what holds with, what without, packets of one flow on two CPUs? |
| `flow_tuple` | `TypeOK`, `FlowsAreConnections`: do entries and detections correspond to connections of the monitored host? |
| `inference` | `TypeOK`, `ActivationsClose`, `LabelRight`: does the kernel compute the trained network? |
| `deployment_serve` | `TypeOK`, `PinsFollowLoader`, `ServedModelSteady`: does an undisturbed loader serve the network deployed last, whatever happened before, to the end of its cleanup? |
| `deployment_sigint` | `SigintEnds`: does SIGINT end a loader at whatever moment it comes, also just before it falls asleep? |
| `number_of_packets` | violated: `num_packet` is not the "Number of packets" (`common.h:6`) when two CPUs race |
| `maximum_time` | violated: `max_duration` is not the "Maximum time between two packets" (`common.h:9`) when two CPUs race |
| `header_length` | violated: `header_length` is not the "TCP total header length" (`common.h:11`) of a flow with IP options |

The three violations are real behaviours of the code. In the first, two CPUs load
`num_packet` before either stores it. In the second, one CPU reads the clock, another
one receives a later packet and stamps the entry with its time, and the first then
computes a negative duration, which as an unsigned number is larger than any other:
since entries are never removed, the feature is spoilt for good. In the third, the bytes of an
IP option are taken for the TCP header.

### Bounds

- `slots`: two processes and three executions, so that an overlap can be followed by
  an orderly execution and by a killed one. Five arrays, as in the code.
- `detection_swap`: three executions are needed for two that meet a detection after an
  earlier one has changed the initial slots; one CPU with one packet suffices since
  a detection is one packet's.
- `detection_cpus`: two CPUs and two flows, so that the same flow and different flows meet;
  three packets, so that two detections of a flow that overlap can be followed by a third.
  There are no updates: what those do to several detections at once is covered by the
  theorems, whose invariant treats every detection by itself. `MCDetection` declares the CPUs
  interchangeable, which is sound for a refinement that states safety only.
- `features_table`: two flows and a table of one entry, two packets each; the clock advances
  by 1 only, so that the time of a packet says which one it is. `features_races`: three
  packets of one flow, so that there are two durations, of different lengths with the clock
  steps 0, 1, 3. IP headers have 20 bytes, and total lengths are 10, which wraps, 40, and in
  `features_races` 60, for a minimum that differs from the maximum.
  `Word` is 256 instead of 2^64 (1024 in two runs), far above every true value, so that only a
  negative difference wraps.
- `flow_tuple`: three frames, a table of two entries, so that it can be full with a flow left
  out; two hosts and two ports, so that flows differ in each component; IP headers with and
  without options. Frames that are no segments of the monitored host have no options, and
  there are no fragments: a later fragment, whose payload would be taken for a TCP header, is
  the same case as an option.
- `inference`: two inputs and three hidden units, so that a matrix that is not square has rows
  and columns to mix up; 32 combinations of layers, means and scales, with weights of both
  signs, in 32nds, that need rounding, means that round up and down, a scale that rounds down
  and one that rounds to 0, as in a slot never deployed. `One` is 16, a shift by 4 bits, with
  exports for 2, 3, 4 and 5 bits. Features lie around the mean, and two make the scaler or a
  layer overflow the 10-bit `int32_t` and the 17-bit `int64_t`. Both labels occur with logits
  far enough apart for each factor. One export per behaviour, any number of deployments and
  detections, so that a detection can follow one with another network.
- `deployment_serve`: two processes that load, two executions that overlap or follow each
  other, one updater with two executions. That a third execution finds nothing else than
  the second is part of `PinsAlwaysFollow`, which holds for any number.
  `deployment_sigint` asks nothing about networks and has no updaters. `MCDeployment`
  declares processes of a kind interchangeable, which is sound for invariants and action
  properties; `deployment_sigint` checks liveness and uses no symmetry.

Deadlock is not checked in any run: when the bounded packets and executions are used
up the system may stop.

### Fairness

Only two assumptions. `Detection`: weak fairness of each CPU's chain, because an XDP
program runs in softirq context to its end and its tail calls follow at once.
`Deployment`: weak fairness of the steps a running loader takes of itself, because the
system schedules it and `sleep(60)` ends; failures, signals and kills are never
forced. `SigintEnds` needs the end of the sleep: with `pause()` in its place (the mutant
`Wake_Pause`) a SIGINT that comes between the test and the call would be lost. `hot_updating` and packet arrival are not fair: the code promises nothing
about them.

## What is proved

### ModelSlots

`ModelSlotsProofs` proves for any set of processes and any bound on executions, from
the assumption that the bound is a natural number:

- `SlotsTypeCorrect`: `SlotsSpec => []SlotsTypeOK`;
- `SlotsActiveWhole`: `SlotsSpec => []ActiveWhole`;
- `SlotsNoRollback`: `SlotsSpec => NoRollback`.

`ActiveWhole` is not inductive: nothing in it says what an execution in progress
may write next. `SlotsInv` adds, for a `solo` execution `u` and while both pins stand,
that no one else is running, that its descriptors are the ones it has opened so far,
that after the lookup `new_nn_idx` is not the slot in use, and that the arrays it has
counted as copied do hold its network. From this a copied array never belongs to the slot
in use, and when `Publish` turns the index all arrays are from that execution. An
execution that is not solo can write to the slot in use only after another one
has published, which `published.solo` excludes until the next solo
publication. The proof goes through the actions one by one; each temporal theorem
closes with `PTL`.

`NoRollback` follows from the invariant before and after a step, since the number of the
published execution never falls while deployments are orderly.

### Detection

`DetectionProofs` proves for any number of CPUs, flows, packets, processes and executions,
and any size of `flow_map`, from the same assumption and `DetectionAssumption` (the bounds
are naturals and there is a flow):

- `DetTypeCorrect`: `DetSpec => []DetTypeOK`;
- `VerdictAlwaysExact`: `DetSpec => []VerdictExact`.

`VerdictExact` speaks of the trace line only; `DetInv` says why it comes out right.
It keeps `SlotsInv`, since whatever the pipeline does the slots see a step of
`SlotsSpec` or none (`PipelineRespectsSlots`), and adds for every detection in progress
(`OnCourse`):

- `BasePast`: the executions it remembers from its start are not in the future, so that a
  new execution always counts as one that overlaps it;
- `KeepsAlone`: while it is alone, every other detection is of another flow, so that
  other CPUs write other entries;
- if it is undisturbed so far, `SlotHeld`: its slot holds the network of its start, nobody
  is writing that slot, all running executions are among those it overlaps, and either
  `nn_idx` still points at its slot or the one execution it may overlap is over;
- and `VectorDue`: the vector its next program reads is the right one.

The heart is `HeldBesideUpdater`. An execution that starts now overlaps the detection,
hence none has before, and the slot is still the one in use; the lookup then chooses
the other slot; the copy goes there; and after the publication no process is
running, since two running ones have different numbers (`RunsDiffer`) and the
detection would overlap both. A second execution after that disturbs the detection by
definition, and with it the code's guarantee ends. Detections start on course because of
`ActiveWhole` and `OffActive` of `SlotsInv`. In the chain each program finds its
vector and its slot, and hands the next vector on.

### Refinements

- `SlotsImplementRegister`: `SlotsSpec => SlotsAreARegister`, in `ModelSlotsProofs`. Two facts
  join `SlotsInv` in `RegisterInv`: no array holds the network of an execution that has not
  started (`WrittenBounded`), and a solo execution is newer than every array of the slot in
  use and has copied only into the other slot (`SoloAhead`), whence a deployment always moves
  the register forward. `RegisterStep` then maps the steps.
- `DetectionImplementsAtomic`: `DetSpec => DetectionIsAtomic`, in `DetectionAtomicProofs`, from
  `DetInv`. `Beside` collects what other CPUs and processes can do to a detection;
  `BesideWaits` shows that it then stays as it is or becomes spoilt, since what it overlaps
  only grows and pins never return. `CPUSteps` puts a CPU's own step together with the
  waiting of the others; one lemma per kind of step follows (`DataPasses`, `EndBegins`,
  `ChainedHidden`, `OutputPrints`, `OthersAreEnvironment`). That the verdict printed is the one
  owed is `VerdictExact` after the step.

### Deployment

`DeploymentProofs` proves, for any sets of processes and any bounds on executions, from
`DeploymentAssumption`:

- `DeploymentTypeCorrect`: `Spec => []TypeOK`;
- `PinsAlwaysFollow`: `Spec => []PinsFollowLoader`;
- `ServedAlwaysSteady`: `Spec => ServedModelSteady`.

`PinsFollowLoader` speaks of loaders that serve or are about to exit; how they got there is
in `PinsInv`. From the load on, every map that counts as `ready` is still named by its pin
(`ReadyPinned`): another loader pins a map only where no pin is, so it never redirects one,
and when it removes one it ends the promise (`kept`). `InOrder` has all maps ready from
`Loaded` on. On the way out a loader that overlapped no other (`SoleAlone`) has nobody to pin
a path again behind it (`Cleaned`). A step of one loader leaves the others' parts alone
unless it changes a pin: `OwnStep` says so once for all steps, `PinOrderly` and
`UnlinkOrderly` treat the two that do.

`ServedModelSteady` is about what a step does to the network in use, and needs to know on which
maps an execution of `hot_updating` works. `SteadyInv` adds to `PinsInv` that nobody has removed
a pin of a loader that overlapped no other (`SoleKept`); that of such a loader, once it is
attached, each pin names its map or is gone (`Attached`, which the cleanup keeps); and of an
undisturbed execution of
`hot_updating` (`SoleUpdate`) that it is the only one, that no loader is on its way up, and that
what it has opened, read and written so far is in the maps of the loader that serves, if it has
opened any (`Beside`). Then
only its last call, which sets the index, changes the network in use, and it changes it to its
own. An execution that was disturbed, or one still at work on the maps of a loader that is
gone, is what the statement's conditions leave out.

### FlowFeatures

`FlowFeaturesProofs` proves, for any sets of CPUs and flows and any number of packets, from
`FeaturesAssumption`:

- `FeaturesTypeCorrect`: `Spec => []TypeOK`;
- `FeaturesNoReset`: `Spec => NoReset`;
- `FeaturesAlwaysExact`: `Spec => []FeaturesExact`.

`TypeInv` adds to `TypeOK` that a CPU that loads or stores has an entry to work on
(`FoundEntry`) and that the times of a flow's packets ascend and its sums are bounded
(`HistoryOK`): a duration is then never negative and no sum wraps. Lengths may: nothing is assumed
of how `tot_len` and `ihl` relate.

`FeaturesExact` speaks of flows between packets, and the update takes a dozen steps. So
`FeaturesInv` says for each flow that never raced what each single field accounts for
(`Included`): all packets received, or all but the one in progress if the CPU has not come to
that field (`EntryExact`). A value about to be stored accounts for all (`ValueExact`),
and a duration about to be compared is still the one the entry gives. The
lemma that `NewValue` takes a field from the first to the second is `NewExact`; that of
`max_duration` needs `last_packet_time` to be still the one before, which is where the order of
the fields enters. A flow without an entry has had no packet but the one in progress as long as
the table has room (`NoneMissed`), so that an insert starts with the first. `OtherFlows` is the
frame lemma: steps for one flow leave the others' parts alone. One lemma per action follows
(`ReceiveSequential` to `StoreSequential`).

`FeaturesImplementTable`: `Spec => UpdatesAreAtomic`, from the same invariant. What a CPU is
about to do to an entry is already in its `Settled` form, so a load or a store must leave that
form alone (`LoadStutters`, `StoreStutters`): the value loaded is the one `Completed` foresaw,
since nobody else writes the entry of a flow that never raced, and no later field reads the one
stored. `LookupIsPacket` and `InsertIsPacket` map the steps at which a packet takes effect, the
full table included, and `ReceiveIsRace` the one by which two packets of a flow come to overlap.

`FlowFeaturesRacedProofs` proves what holds whatever races there are:

- `NothingEverInvented`: `Spec => []NothingInvented`.

With races a count, a sum, a minimum or a maximum of lengths may lose updates, but gains
none (`max_duration` may: that is `MaximumTime`). This is an invariant about all CPUs at work
on a flow together, however many they are (`SharedInv`):

- `CountInv`: the count stored, plus the number of CPUs that have yet to store theirs, is not
  more than the packets received; the same holds of a value loaded and incremented but not
  stored yet, which may be older than the entry;
- `BytesInv`: likewise for the header bytes, plus the bytes due by each CPU still at work;
- `LengthInv`: a minimum or maximum, stored or about to be, is the length of some packet received
  or the initial value;
- `Uncounted`: while the count is 0, every packet of the flow is still in the hands of a CPU that
  has yet to store its count. Hence a detection, which ends on a CPU that has handled its packet,
  never divides by 0, whoever else is inserting or updating the entry.

The sum in `BytesInv` is over a set of CPUs of any size. It is not computed: `Additive` says of a
function on sets of CPUs what a sum satisfies, and the invariant that there is one. At the
start nobody is at work, and a step adds or takes away one CPU at most (`OneMoreSummand`,
`OneSummandLess`). The number of CPUs in `CountInv` is treated likewise with `FiniteSetTheorems`.

### FlowTuple

`FlowTupleProofs` proves, for any addresses, ports, header lengths and table size and any number
of frames, from `FlowTupleAssumption` (the monitored host is an address, ports have 16 bits):

- `FlowTupleTypeCorrect`: `Spec => []TypeOK`;
- `FlowsAlwaysConnections`: `Spec => []FlowsAreConnections`.

`XdpCases` takes the one action apart: the frames that pass the checks and the filter are
the segments of the monitored host, and all others change nothing. `ConnectionInv` says of a
flow that has had nothing to do with IP options that its entry equals what was received of
the connection and that a detection was started for each of its ends; or that it has no
entry, since nothing was received or the table was full, and entries are never removed. It
is stronger than `FlowsAreConnections` in that a connection without segments has no bytes
and no end (`NothingYet`), from which its first segment starts. A segment with IP options
takes both the connection it belongs to and the flow it is filed under out of the invariant;
one without is filed under its own connection.

### Inference

`InferenceProofs` proves, for layers of any size (two hidden units at least, and no more
inputs than those, since they share a scratch vector), any trained weights, means and
scales, any features, any number of fractional bits and any widths of the types, from
`FixedPointAssumption` and `InferenceAssumption`:

- `InferenceTypeCorrect`: `Spec => []TypeOK`;
- `ActivationsAlwaysClose`: `Spec => []ActivationsClose`;
- `LabelAlwaysRight`: `Spec => []LabelRight`.

The run has layers of two and three units and numbers of ten and seventeen bits; the theorems cover the
32-unit network of `mlp.py` with `int32_t` and `int64_t` as they are. The argument has three parts.

*Recursion.* `sum` in `linear_layer` and in `Sum`, and `most` in `Denominator`, are recursive
functions. The library's induction theorems take the property as an operator, which the provers
here cannot instantiate; stated with a *set* in its place induction is first-order. `LeastNumber`
follows from the library's `NatLessThanWellFounded` and `WFMin`, `Induction` from it, and
`Recursion` then shows that a function with the recursive equation exists, on any interval. `SumIs`
and `LinearIs` apply it.

*Errors.* `TermClose` bounds by how much one product of a rounded weight and an inexact input is
off, and `SumsClose` adds that up over a row. `NeverWraps` shows by induction that no partial sum
leaves `int64_t` if the sum of the absolute values does not, so that the wrapped
accumulation is the true sum. `ShiftClose` accounts for the shift, `CutIs` for the reduced
fraction, and `RowClose` to `LayerClose` put a layer together; `ReluClose` says that ReLU makes
no error greater. For the scaler, `DenominatorIs` shows that there is a common multiple,
`QuotientIs` and `ScalerIs` that nothing wraps and that the two branches of the code treat the
sign alike, `QuotientError` to `FeatureClose` what rounding the mean and the scale costs. `Forward`
chains the stages.

*Steps.* `ActivationsClose` is about the vector the next program reads, and is inductive but
for two facts that `InferenceInv` adds: that the header and the slot in use are what the
exporter makes of some trained network (`Header`; the slot of a fresh map included, as
`ZeroNetwork`), without which a weight need not be near the trained one, and that the label
says which of the first two elements of `hidden1` is greater (`LabelInv`). `LabelRight`
follows by `MarginDecides`: if the exact logits are further apart than both errors, the
computed ones are in the same order.

### What stays with TLC

- `DetectionCompletes` and `SigintEnds`: liveness, which rests on fairness and so on `ENABLED`.
- The three statements of the source that the code violates: each needs a counterexample and
  has one.

All other properties of the runs are theorems.

## Not modelled

- `bpf_printk`, `printf` and the profiling times.
- Training (`mlp_train.py`, `train` and `test` of `mlp.py`) apart from the forward pass, the build,
  the data sets and the scripts that generated traffic: no protocol of the running system.
- libbpf and bpftool beyond what is named above: vendored code. They, and the generated
  `vmlinux.h`, are all but about a thousand of the repository's lines; of the program's own C
  code in `src/` the models cover every function that does more
  than print.
- Fragmented packets, and other frames than those of `Frames`.
- A second loader's effect on the network in use, a restart on maps a crash has left (it sets
  `nn_idx` to 1, whatever network is there), and the verdicts of detections that overlap on one
  flow: the models contain the behaviour, but the code promises nothing that could be stated.

## Plan

1. Done: all modules above; all safety and action properties of the runs and the three
   refinements proved.
2. Next: the refinement of `Detection` to state what a verdict computes, so that `Inference` takes
   the place of its symbolic vectors: a detection that stays undisturbed prints the label of
   the trained network deployed last.
3. Then: exactness on both sides for `FixedPoint`, that is when an activation has no error at all, and a
   shorter proof of `OnCourse` for the chained programs.
