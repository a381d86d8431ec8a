# e-react, specified in TLA+

e-react is a C99 library for microcontrollers: a program is an event loop over
*components*, each a record of props and state with lifecycle hooks, on top of a
small hardware layer (pins, timer, ADC, UART) for AVR, STM8L and x86. This
directory models its core and the components that compile, checks the models with
TLC, and proves theorems about them with TLAPS. Paths below are relative to `src/`.

## The system

| Part | State | Operations | What makes it correct |
|---|---|---|---|
| component core, `react/component.[ch]` | stage, props, state of each component | one call of `React_Component` a turn: mount, or prepare, or release | props and what is shown agree at rest; the lifecycle of README.md; what is asked for is shown in the end |
| ring buffer, `react/circular.[ch]` | data, read and write index | `rb_write`, `rb_read`, `rb_write_string` | a bounded FIFO although both sides interrupt each other |
| Scheduler, `component/Scheduler` | a heap of events, the scheduled `next_event`, the timer | `Scheduler_enqueue`, `Scheduler_dequeue`, the hooks, `event_callback` in an interrupt | every accepted event fires once, not early, closest first, and is never forgotten |
| IO, `component/IO` | the last level read; the pin | the hooks; callbacks on changes | the pin is configured for its mode, driven as asked, and told as read |
| Timer, Button, Encoder, PWM, ADC | clocks carried from ticks; debounced levels; edges of a shaft; a conversion in flight | hooks over a pin or a channel and the clock | no time lost, no press missed or repeated, pulses as long as asked, every sensor read |
| Servo | duty phase, two durations | hooks, and `Release` as a callback of Scheduler | one pending event for each servo, which moves it on until it stands by, and pins off in standby |
| Serial, Bitbang | two ring buffers, a mode, a byte in flight | hooks over a UART or pins; line callbacks | bytes out in order, bytes in as they were on the line |
| Menu | current and previous menu, the command | hooks | a command runs once, and none is passed over |
| hash table and x86 HAL | pins by hash, ten timers as threads | pin and timer handlers called by two threads | one record for each pin |
| AVR and STM8L HAL | registers | register accesses, the compare interrupt | |
| Slider, SPI, SIPO, OneWire, MMA7455, UART | | do not compile at this commit | |

Components meet in three ways. The event loop *calls* them in turn
(`loop`, `use`, `apply`), and the props it offers are expressions over the
application's variables. Callbacks of components write those variables. And the
timer interrupt *shares* Scheduler's queue, the ring buffers' clients and the port
registers with the loop. The last is where the hard behaviours are: nothing in the
code masks interrupts except `timer_set`. The other hard parts are the counter that
wraps in the middle of a comparison, a lifecycle that sees old props in one hook and
new ones in the next, and queues at their limit. `PROJECT.json` lists these hazards
line by line with the properties aimed at them.

## The modules

- `Lifecycle` is what README.md promises of a component, and `Component` is
  `React_Component` with the props-copying wrappers, for several components taking
  turns in any order. `Mount`, `Prepare`, `Skip` and `Release` are the branches of the
  function; `want` is what the application's expression evaluates to.
- `Fifo` is a bounded queue, and `RingBuffer` implements it. A call is split into the
  test of the length, the access to the slot and the move of the index, because the
  other side may run between these. Each index is one word that one side writes.
- `EventHeap` holds the constant operators of the heap in Scheduler.c: the comparison
  of two events on a counter of `Wrap` values, the climb of `event_prioritify`, the
  descent of `event_heapify`, and what `Scheduler_dequeue` leaves. The loops are
  described by the path of slots an event takes, which is what their swaps amount to.
- `PriorityQueue` is a set of waiting clients, of which one that is due first leaves;
  `EventQueue` is the heap used by one caller, and implements it.
- `Scheduler` composes the heap, the component's hooks, the timer of the AVR and the
  interrupt. A step of the loop ends where the interrupt can change what the loop goes
  on to use: after the store of `event_prioritify`, after the increment, between the
  two stores of a swap, between the test and `timer_off` of `willUpdate`, between the
  decision of `release` and `timer_set`. Where the timer is off no interrupt comes and
  the rest of a hook is one step. `IncrementSize` lets the compiler keep the size it
  has read, as optimised builds do. One slot after the array is part of the model, so
  that a write past it shows. Two accesses are coarser than on an 8-bit processor: the
  store of an event and the reading of the counter are one step each. An interrupt inside
  them could only matter where its callback enqueues or reads the timer, which
  `Scheduler_race` already shows to be unsafe and `Scheduler_masked` excludes.
- `IO` is the component with the DDR, PORT and PIN bits of the AVR, a circuit that
  drives or leaves open each line, and an application that changes the props at will.
- `Servo` is the component between its turns and the interrupt that runs its `Release`.
  Scheduler is there as a bag of pending events that fire at any time, in a queue of
  `Capacity` slots which null events may take too (`Scheduler_full`); the servos share one
  port register, which `io_on` and `io_off` load and store. A turn is split before that
  store (`ReadPort`, `WritePort`), before its enqueue (`EnqueueServo`), and in
  `willUpdate` between its test of `on_duty`, the test of the speeds, and
  `Servo_willMount`, because the interrupt changes `on_duty` between them. Nothing masks
  the enqueue of a turn: when the interrupt has come into it with an enqueue of another
  servo, the bag is any of those `Collided` names, which are what the stores of
  `event_prioritify` and its swaps can leave: both events, all but one, or all but one
  with another twice. (Checked once with TLC on `Scheduler`, with the constants of
  `Scheduler_race`: in 3.2 million states, between enqueues, never more places hold an
  event than events have been accepted.)
- `Clock` is what a timestamp of `struct Timer` promises to its readers: it never goes
  back, moves by a few units a turn, and wraps. `Timer` carries the ticks of a counter
  to such timestamps and implements it (`TimeIsAClock`). `Button`, `PWM` and `Encoder`
  extend `Clock`; the clock moves at the end of each of their turns.
- `Button` adds a contact that opens and closes at any time, `PWM` the level of its pin
  with the time it was asked to have, `Encoder` a shaft that turns one way and waits
  with an edge until the last one was handled, `ADC` the multiplexer, and the callback
  of `app/servo_sw.c` that changes the sensor when its value comes.
- `Bitbang` has the clock, output and input of `app/banging.c`, with a slave that writes
  down what is on the lines at the edges of the clock. Bytes are sets of bits.
- `Serial` is the component with the UART of the AVR, between two queues of
  `BUFFER_SIZE - 1` bytes (what `RingBuffer` is shown to be), and the callbacks of
  `app/uart_menu`. `Menu` extends it with the component that runs the lines, in the
  loop of that application, with the strings its callbacks print.
- `Calendar` is `Timer_date` beside a calendar on a wall, which goes on second by second
  and knows leap years by counting them.
- `PinTable` is the pins of the simulated hardware: `get_pin` over `hash_read` and
  `hash_write`, called by the event loop and the thread of a test, split at each store
  into the table. The entry after the last used one is looked at, as in the code.
- `Devices` is the sum of the last ten: an application uses one of the components, and
  the state of the others is left alone. One run checks them all.
- `MC*` modules give the constants that a `.cfg` cannot write. `*_proofs` hold the
  theorems.

Each property of a passing run has a *fault* beside the definition it changes (named
after it, such as `rb_full_late`): a plausible bug under which the run finds the
property violated.

## What the runs show

| Run | States | Shows |
|---|---|---|
| `RingBuffer` | 128 thousand | `RefinesFifo`, `NoSlotRace`, 4 slots and strings of up to 3 bytes |
| `EventQueue_order` | 88 thousand | heap order, one slot for each event; eight clients with different timeouts, five slots, across a wrap |
| `EventQueue_closest` | violated | with six slots the head is not the closest event |
| `Scheduler_loop` | 1.8 million | only the loop enqueues, interrupts anywhere: events are accounted for and never early |
| `Scheduler_masked` | 3.5 million | callbacks enqueue too, and interrupts are masked while the loop enqueues, as the code does not: events are accounted for |
| `Scheduler_full` | violated | with two events and two slots, an event is stored past the array |
| `Scheduler_race` | violated | the same without masking loses an accepted event |
| `Scheduler_stranded` | violated | the timer is armed for a tick that has passed |
| `Scheduler_closer` | violated | a closer event does not replace the scheduled one |
| `Component` | 4 thousand | the lifecycle, and that components settle |
| `IO` | 3 thousand | direction, level and callbacks of an IO that keeps its mode |
| `Devices` | 939 thousand | the properties of the ten modules of `Devices`, listed below |

The heap is a heap only as far as its two ideas of a parent agree. `PARENT(x)` is
`x / 2` and the children of `x` are `2x + 1` and `2x + 2`, so slot 2 climbs to slot 1
and sinks from slot 0. Up to five events the order of what is dequeued is still right,
which `EventQueue_order` shows for every sequence of calls and `FewInOrder` proves for any
number of clients; with six it is not.
The applications of the repository reserve fifteen.

`Accounted` says of each client that its accepted event is in exactly one place (a
slot, `next_event`, or the call in progress) until its callback, and in none after.
`Scheduler_masked` shows that masking interrupts in `Scheduler_enqueue` is what it takes
for that, a mending of the code; `Scheduler_race` is the code as it is. Masking is not enough to keep the queue in its
array: `willUpdate` tests `next_event` before it turns the timer off, and when the
interrupt comes in between, a null event goes back to the queue and
takes a slot until a later dequeue hands it out, when it is discarded.
`Scheduler_full` shows the array overrun that follows, with as many slots as events and
no callback that enqueues (the one slot after the array is in the model, so `Accounted`
still finds what went there). `NeverEarlyUnlessWrapped` has an
exception that is in the code: when the counter wraps between the two readings of
`release`, its third condition takes an event that is still to come for a late one.

An `IO` that changes its mode configures its pin for the mode it leaves (`IO.c:38` runs
before the props are copied): with `SwitchesMode = TRUE` TLC finds `DirectionIsMode`
violated. No application of the repository does so, and the run and the proofs take
`SwitchesMode = FALSE`. Other places differ from what is said of them, or from what
they were clearly written for:

- `README.md` line 14 has `react` run the whole lifecycle where it runs one step of it,
  and line 29 draws an unmounting step: nothing calls `DidUnmount` or leaves
  `RELEASED` for it, so `Lifecycle` has no such phase.
- `Bitbang.h` line 20 calls `little_endian` the "order in which sending and reading bits".
  `Bitbang.c` line 105 reverses the byte it sends, and nothing reverses the byte it reads.
  `InputIsShifted` therefore says the same of both orders: it describes the code, and is
  no evidence that reading follows `little_endian`. It does not.
- `Timer.h` line 29 calls `year` the years since 1900 where `Timer_date` stores all of them.
- `Timer.c` line 90 tests an unsigned number for being negative.
- `Servo.c` line 56 chooses between the duty cycle and the rest of the period by
  `on_duty ? ... : ...`. After the toggle above it `on_duty` is `SERVO_ON_DUTY` or
  `SERVO_ON_OFFSET`, and neither is 0, so the off period is as long as the on period, and
  `remain_time` and `fast_random()` are never used.

### The properties of Devices

The components keep their promises only in part, and each property names the part:

| Property | Says | Except |
|---|---|---|
| `TimeIsKept`, `TimeIsCarried` | ticks since the start and timestamps agree across wraps | a tick is lost for each odd interval (`usFromTicks` shifts it out) |
| `TimeIsAClock` | the milliseconds are a `Clock` (refinement) | |
| `DateIsRight` | the calendar is the one on the wall, over leap years and centuries | from the minute an `unsigned int` of minutes overflows (45 days on the AVR) |
| `OnePressEach` | a press is told more than the delay after the last, and only if the contact opened in between | |
| `HoldIsPressed` | a held push button is pressed in the end | held at the start with a pull-up, or found closed at millisecond 0 |
| `PulseAsAsked` | each level lasts as asked, one turn early to two late | across a wrap of the clock |
| `CyclesAreTold` | a full cycle of edges tells two turns more one way, and never divides by zero | edges that share a millisecond; one of four edges is told for the wrong way |
| `SensorsAreRead` | sensors at rest are both known in the end | the next sensor has the very value read last: `onChange` is not called |
| `BitsAreClocked` | the slave reads the byte that was taken from the buffer | |
| `InputIsShifted` | the byte read is the input shifted by one bit, the last one lost, whatever bit order is asked for | |
| `SentInOrder` | bytes leave in the order they were written | a NUL swallows the byte after it; the mount sends a byte of its own |
| `LinesAreKept`, `LinesAreRun` | a line stays until it is run or refused, and each one is | |
| `OneEventEach` | a servo never has two events, nor one when it stands by | servos whose event was doubled when another servo's enqueue, in the interrupt, came into one of the loop |
| `EventsFit` | there are never more events than servos, so none is refused, even where some are lost and doubled | |
| `RunsUnlessLost` | a servo that runs has the event that moves it on | it was restarted in the moment its stop came, or its event was lost where two enqueues met: it has none, and its turns wait for it |
| `OffInStandby` | the pin of a servo that stands by is off | the loop stores a port it read before the interrupt turned the pin off |
| `PinsAreKept` | every thread finds a pin as all have left it; pins of one hash are one | two threads add at once, or the table is full |

The exceptions are what the code does; each is named by a history variable or a
condition of its property.

### Bounds

Time is bounded by `MaxTime`: 8 ticks for Scheduler from counter value 60 of
`Wrap = 64`, so the counter wraps in the middle of the run; an event with
the largest timeout (2 microseconds, 4 ticks) is created, waits, fires late and is
created again. Eight ticks also keep every event younger than half a turn of the
counter, below which ages do not overflow an `int`; above it the comparison is
undefined behaviour of C, and nothing is claimed. Three clients and three slots give a
heap with both children and a sort of two levels, and the fifth and sixth slot matter
only to the order, which `EventQueue_*` check. Clients that only enqueue from the loop
are interchangeable, so `Scheduler_loop` uses symmetry (its properties are safety);
`Scheduler_masked` gives its clients different roles and uses none.
`RingBuffer` with four slots fills and wraps while a string is written.
`Component` and `IO` need no bound.

In `Devices` units are small where the code's are large, and what has to wrap does:
the counter of `Timer` has 10 values and three units of one timestamp make one of the
next, so that 30 ticks carry into seconds with three wraps. The clock of `Button`, `PWM`
and `Encoder` has 20 values, moves by at most 2 a turn and the bounce delay is 1: half
a word must be more than the delay and a few turns, as it is in the code by far. A duty cycle
of 2 steps of 2 units has both constant levels and one in between. `ADC` has two
sensors of three values, `Bitbang` bytes of three bits (a first, a middle and a last one)
and buffers of one byte, so that it starves and fills. `Serial` has buffers of three bytes, less
than the prompt and a line together; the peer sends five, enough for two lines. Two
servos make an interrupt of one meet the turn of the other, its enqueue included, and the queue has
three slots, of which one null event at a time may take one (`Spare`; `servo_sw.c` has three servos
and fifteen slots). A day
of `Calendar` has eight seconds (two, two and two), which leaves years their days, and
it shows a common, two leap years, a century that is none (2100), and June 2149, when
the minutes overflow. `PinTable` has two threads, three pins, of which two have one hash as
C1 and B2 have, and one entry: it is full from the first pin on, and refuses one of the other hash.
(With two entries and a third hash TLC found no error in 865 thousand states either, in a run too
long to keep; `PinsKept` is for every size.) `MaxTyped` and `MaxTime` bound the only
counters that grow without end.

### Fairness

`loop(...)` is `while (... true)`, and `React_Component` returns true: some component
always takes a turn, and in `Component` a component has had its turn before another
has two. So `Component` and `IO` assume weak fairness of turns, and of nothing
else: applications need not ask, lines need not change. `DevicesFairness` has the
same for the components with a liveness property: turns of `Button` go on, and turns
during which time passes (the loop runs while the milliseconds count); turns of `ADC` go on and a
conversion that is under way ends; the loop of
`uart_menu` goes on. The UART need not become ready, the peer need not type, and the
contact and the sensors need not move. The other specifications
assume no fairness and only safety is checked of them.

## What is proved

For all values of the constants, from the assumptions each module names. Every safety
property that a passing run checks, and every refinement, is also a theorem; where one
has a hypothesis beyond the module's assumptions, it is named here.

- `RingBuffer_proofs`: `TypeCorrectness`, `SlotRaceFreedom`, `Invariance` and
  `Refinement` (`Spec => RefinesFifo`). The inductive invariant `IInv` says that a side
  which has passed its test keeps what it tested, because the other side can only move
  the length away from its limit; that the reader holds the byte it will release; and
  that the slots pending hold written bytes. The refinement is one lemma for the writer's
  index and one for the reader's, each about the sequence of pending slots, and needs
  arithmetic modulo `Size`, for which the lemmas come first. Every size is covered by
  reading the mask `x & (size - 1)` as a remainder, which it is for powers of two (`MCRingBuffer` checks that for small ones).
- `EventHeap_proofs` has the lemmas on the heap that the next two use. The recursive
  functions of the climb and the descent are shown to exist, and to be paths that never
  come back to a slot (`ClimbIsPath`, `SinkIsPath`), by a least counterexample. Moving an
  event along such a path permutes the slots (`AlongRearranges`), so an enqueue adds one
  event and a dequeue takes the head, whatever the comparison says, even where it is
  not an order (`PrioritifyRearranges`, `DequeuedRearranges`). `MatchIsAfter` says that a counter which shows
  the value it is to have in `k` ticks has gone on for `k` ticks at least. `Order` is what
  holds of up to five slots although parents and children disagree: `ClimbOrders` and
  `SinkOrders` keep it for every comparison that agrees with a number given to each
  event, by the few paths there are (`FewClimb`, `FewSink`), and then `HeadComesFirst`.
- `EventQueue_proofs`: `QueueTypeSafety`, `OneSlotForEach` and `AddsOrTakes`, for every
  capacity. The invariant `Inv` says that no two slots hold events of one client.
  `FewInOrder` is the refinement of `PriorityQueue` under three hypotheses: `Brief`, no timeout
  takes more ticks than half a turn of the counter; `Young`, no event has been waiting for half a
  turn; and `Few`, no more than five events wait, which with a sixth is false
  (`EventQueue_closest`). `OrderInv` adds to `Inv` that each event is stamped with the value
  the counter had when its due date was set, and `CloserIsDueFirst` that the comparison of two
  such events, wraps included, says which is due first.
- `Scheduler_proofs`: `TimerSafety`, that the interrupt never finds `next_event` empty,
  and `release` arms the timer for the event it has tested, for every way of calling
  Scheduler. `TimerDiscipline` is not inductive by itself: `StageInv` adds where the loop is in
  each stage, and that the timer is off from the end of `willUpdate` to the arming. The
  other theorems are about calls that are `Undisturbed`: the loop masks interrupts while it
  enqueues, or no callback enqueues. Without that they are false (`Scheduler_race`).
  `TypeSafety` says that no index leaves the array, and `EventsAccounted` that an accepted event is in
  exactly one place until its callback: `OneEach` counts the places of a client over the
  slots, `next_event` and the call in progress, through each store of a swap.
  `CallbacksNotEarly` is `NeverEarlyUnlessWrapped`, for timeouts that are `Short` (`2 * timeout` fits the
  counter). Its invariant `DatesInv` says that every
  event held anywhere is dated, that what `release` has read was the counter at some tick,
  and that the compare value lies less than a turn after a tick from which it cannot come before
  the event is due. It needs no bound on how long an event waits.
- `Component_proofs`: `TypeCorrectness`, `RestSafety` and `LifecycleFollowed`, the
  refinement of `Lifecycle` by each of any number of components.
- `IO_proofs`: `TypeCorrectness` whatever the application asks, and under the hypothesis
  that it does not switch modes `DirectionSafety` and `RestSafety`. For the first the
  invariant adds that the mode of the props is the mode asked for; for the second,
  that the last callback is that of the last level.
- `Time_proofs`, the components that keep time or read it:
  - `Timer`: `TimeKept`, `TimeCarried` and the refinement `TimeOfAClock`, for every
    width of the counter, radix and word of milliseconds for which a turn adds at most
    `MaxMs`. The arithmetic modulo the counter is in lemmas of its own (`Distance`,
    `Successor`, `WrappedSum`), the invariant adds that the ticks passed but not released
    are those of the last reading.
  - `PWM`, `Button`, `Encoder`: `PulseKept`, `NoBounceIsPress` and `CyclesTold`, for every word and
    every pace of the loop. `PWMInv` relates the tick a level ends at to the time it has
    had, exactly but for the turn between `willUpdate` and `release`. `ButtonInv` says that a
    delay that runs began after the last press was told, and that a contact that has not
    opened since is seen closed with no delay running; `Passed` and `Told` carry that over
    the wrap of the clock. `EncoderInv` has the levels and the net turns for each edge of the
    cycle, and that the pin that changed last has the later tick.
  - `Calendar`: `DateRight`, for any length of the minute, the hour and the day (a minute
    has to fit the word of minutes). The years and months that `Timer_date` takes off one by one are
    recursive functions, which are shown to exist and to end where the second of the date on the
    wall (`SecondOf`) puts them.
- `Devices_proofs`, the others and their sum:
  - `Servo`: `EventsAreOne`, `EventsAlwaysFit`, `NeverRefused`, `OnlyLostStall` and `PinsAreOff`, for
    any finite set of servos with a slot each and one for each null event (`ServoAssumption`), with
    the interrupt anywhere and the losses and doublings of enqueues that meet. The invariant
    `ServoInv` follows one servo through the steps of a turn: one that is prepared (and not being
    decided on), stands by or is being enqueued is `Owed` its next event by the loop, and has none
    unless it was doubled; any other has one exactly if it is not lost; and one that
    stands by has speed 0. `OneEventEach` alone does not bound the queue once an event is doubled,
    so `Claims` counts the events of each servo with the one it is owed: there are as many as
    servos at first and never more (`Fit`), a step of the loop or the interrupt adds none
    (`NoMoreClaims`), and an enqueue that doubles one event has taken another (`MovedFits`). Where the
    loop enqueues, one claim is not yet an event, and so there is a slot for it (`RoomBelow`).
  - `Bitbang`: `BitsClocked` and `InputShifted`, for every width of a byte and either value
    of `little_endian`. `BitInv` says that a byte is under way exactly from the turn that takes it to the turn
    after its last pulse, and that until then the slave has its first bits.
  - `Serial` and `Menu`: `LinesKept`, `MenuTypes` and `SentAsWritten`, for every alphabet,
    size of the buffers, prompt and tree of menus (whose entries are words of the
    alphabet and menus of the tree, and none the empty entry that stands for no command: `MenusAssumption`). `MenuInv` says that UART
    and Menu go through their stages in lockstep, which is why the next line cannot be read
    before the last one has been looked up.
  - `PinTable`: `PinTypes` and `PinsKept`, for any number of threads and pins and any size of the
    table. `PinInv` says that every store is in memory, and, until two threads have been adding a pin
    at once, that the used entries come first, hold each hash once, and are what each
    thread's call in progress takes them for.
  - `Devices`: `EachByItself`, that the steps of an application are steps of each component in it;
    and from that and the theorems above `DevicesTypes`, `DevicesSafety` and `DevicesActions`, all
    of the components' safety in every application, as the run checks it.

`Short` and `Brief` stand for timeouts below 32768 and up to 16384 microseconds. `Servo`, the one
component that enqueues, asks for its duty cycle only, `1000 + angle * 50 / 9` or 1000 to 2000 for
angles up to 180, well below both. An application may call `Scheduler_enqueue` with more, and the
hypotheses are needed: with timeouts 4 and 18 of 64 values TLC finds `RefinesPriorityQueue` violated,
and with 33 `NeverEarlyUnlessWrapped`. The runs keep below.

Induction over data is done by hand: the induction theorems of the library take an operator, which the
provers cannot instantiate, so `Least` (a set of numbers that is not empty has a least
one) stands in for them, and the models write recursion as recursive functions.

Only model-checked: liveness (`AllSettle`, `OutputSettles`, `InputSettles`,
`HoldIsPressed`, `SensorsAreRead`, `LinesAreRun`), because the prover has no rules for
fairness here; and the order of events enqueued while an interrupt may come, of which no
property is stated (`Scheduler_closer` shows a closer event waiting behind the scheduled one).

## What is left

`RingBuffer`, `Scheduler` and `Servo` are composed by what each is shown to promise, and
not in one specification: `Serial` takes queues for ring buffers, and `Servo` a bag of
events for Scheduler. The timers of the x86 layer, threads that sleep, could be a
second timer for `Scheduler`. Worth proving next: that `Scheduler`, undisturbed, implements the queue of
`EventQueue` at the end of each call, so that `FewInOrder` carries over to the loop; and that
the bag of `Servo` is what Scheduler holds, `Collided` where two enqueues meet.

## Not modelled

- SPI, SIPO, OneWire, MMA7455 and UART are written for macros `component.h` no longer
  has, and `Slider.c` uses props (`onRight`, `onLeft`) that `Slider.h` does not declare:
  they do not compile at this commit.
- The STM8L layer enables no compare interrupt (the lines are commented out) and its
  `timer_off` is empty, so nothing of Scheduler runs on it; the rest are register accesses
  like those of the AVR. `STM8L152R6.h`, most of the lines of the repository, is the
  vendor's table of registers.
- The timers of the x86 layer (ten sleeping threads, a `timer_off` that does nothing), and
  its ADC and UART, which are stubs. `flip`, `hash_pop`, `React_Local`, `React_Init` and
  `React_Load` are called nowhere.
- Number formatting, logging and the example applications have no state of their own.
  `routines.c` of `uart_menu` lacks a brace in `log_memory`; its other callbacks are in `Serial` and `Menu`.
- Lengths of pulses in `Servo`: `willUpdate` computes them from the angle the servo leaves,
  so a new angle shows with the next change, and the off period is the duty cycle
  (`Servo.c:56`, above). The size of the application's `command` array (32
  for lines of a 128-byte buffer, `app/uart_menu/main.c:60`): the model has room for a line.
- The two bytes in which an 8-bit processor reads its counter (`avr.c:258`).
