------------------------------ MODULE PinTable ------------------------------
(***************************************************************************)
(* react/hal/x86.c and react/hash.c: the pins of the simulated hardware.   *)
(* A call of hw.io finds the copy of a pin under its hash in a table, or   *)
(* adds one.  The event loop and the threads of a test (react/unit.h)      *)
(* share the table and take no lock.  The ddr bit, which nothing reads,    *)
(* flip, which no component calls, and hash_pop, which nothing calls, are  *)
(* left out.                                                               *)
(***************************************************************************)
EXTENDS Integers, FiniteSets

CONSTANTS Thread,    \* the event loop and the tests
          Pin,       \* name: the sum of the characters of the name; number
          TableSize  \* the entries of the table (128 in the code)

MAX_TABLE_SIZE == 10007

ASSUME PinAssumption ==
  /\ Pin \subseteq [name : 1..1000, number : 0..7]
  /\ TableSize \in Nat /\ IsFiniteSet(Thread)

VARIABLES pins,   \* struct hash_table pins: index, data, used
          copy,   \* the port bit of each pin_t on the heap
          call,   \* the call each thread is in: its step, pin, and copy found
          set,    \* history: the bit of each hash as the calls have set it,
          \*   until raced
          raced   \* history: two threads were in get_pin for new pins at once

pinVars == <<pins, copy, call, set, raced>>

NULL  == 0
NoKey == 0  \* in the index before it is written; the hash of no pin
Idle  == [pc |-> "idle", key |-> NoKey, copy |-> NULL]

(* The arrays, and the memory after them that a race may write.            *)
Slot == 0..(TableSize + Cardinality(Thread))
Copy == 1..(TableSize + 2 * Cardinality(Thread))

hash_pin(pin) == (pin.name + pin.number) % MAX_TABLE_SIZE

Key == {hash_pin(pin) : pin \in Pin}

PinInit == /\ pins = [index |-> [i \in Slot |-> NoKey],
                      data  |-> [i \in Slot |-> NULL], used |-> 0]
           /\ copy = [c \in Copy |-> FALSE]
           /\ call = [t \in Thread |-> Idle]
           /\ set = [k \in Key |-> FALSE]
           /\ raced = FALSE
-----------------------------------------------------------------------------
(* The entries of a key, up to and including the one after the last.       *)
Entries(key) == {i \in 0..pins.used : pins.index[i] = key}
First(slots) == CHOOSE i \in slots : \A j \in slots : i <= j

Adding(t) == call[t].pc \in {"write", "key", "data", "used"}
InUse(c)  == (\E i \in Slot : pins.data[i] = c) \/ (\E t \in Thread : call[t].copy = c)

CallPin(t, pin) ==
  /\ call[t].pc = "idle"
  /\ call' = [call EXCEPT ![t].pc = "read", ![t].key = hash_pin(pin)]
  /\ UNCHANGED <<pins, copy, set, raced>>

(* hash_read finds the copy, if another thread has not just begun to add it,*)
hash_read(t) ==
  LET slots == Entries(call[t].key)
  IN  /\ call[t].pc = "read" /\ slots # {}
      /\ call' = [call EXCEPT ![t].pc = "use", ![t].copy = pins.data[First(slots)]]
      /\ raced' = (raced \/ First(slots) = pins.used)
      /\ UNCHANGED <<pins, copy, set>>

(* or it does not, and get_pin makes one ...                               *)
get_pin(t) ==
  /\ call[t].pc = "read" /\ Entries(call[t].key) = {}
  /\ LET new == CHOOSE c \in Copy : ~InUse(c)
     IN  /\ copy' = [copy EXCEPT ![new] = FALSE]
         /\ call' = [call EXCEPT ![t].pc = "write", ![t].copy = new]
  /\ raced' = (raced \/ \E u \in Thread : Adding(u))
  /\ UNCHANGED <<pins, set>>

(* ... for hash_write to put in the entry of its key, in a new one, or     *)
(* nowhere, when the table is full.                                        *)
hash_write(t) ==
  LET slots == Entries(call[t].key)
  IN  /\ call[t].pc = "write"
      /\ IF slots # {}
         THEN /\ pins' = [pins EXCEPT !.data[First(slots)] = call[t].copy]
              /\ call' = [call EXCEPT ![t].pc = "use"]
         ELSE /\ call' = [call EXCEPT ![t].pc = IF pins.used < TableSize
                                                THEN "key" ELSE "use"]
              /\ UNCHANGED pins
      /\ UNCHANGED <<copy, set, raced>>

StoreKey(t) == /\ call[t].pc = "key"
               /\ pins' = [pins EXCEPT !.index[pins.used] = call[t].key]
               /\ call' = [call EXCEPT ![t].pc = "data"]
               /\ UNCHANGED <<copy, set, raced>>

StoreData(t) == /\ call[t].pc = "data"
                /\ pins' = [pins EXCEPT !.data[pins.used] = call[t].copy]
                /\ call' = [call EXCEPT ![t].pc = "used"]
                /\ UNCHANGED <<copy, set, raced>>

(* Fault: the entry is not counted.                                        *)
IncrementUsed_missing(t) == /\ call[t].pc = "used"
                            /\ call' = [call EXCEPT ![t].pc = "use"]
                            /\ UNCHANGED <<pins, copy, set, raced>>

IncrementUsed(t) == /\ call[t].pc = "used"
                    /\ pins' = [pins EXCEPT !.used = @ + 1]
                    /\ call' = [call EXCEPT ![t].pc = "use"]
                    /\ UNCHANGED <<copy, set, raced>>

(* What a call does to the bit of its copy, in the end: in, which pulls    *)
(* up, and pullup are as on; out leaves it alone, as get does.             *)
PortBit(op, b) == CASE op = "on" -> TRUE [] op = "off" -> FALSE [] op = "get" -> b

(* A copy that is in no table is lost with the call.                       *)
UsePin(t, op) ==
  LET c == call[t].copy
  IN  /\ call[t].pc = "use" /\ c # NULL
      /\ copy' = [copy EXCEPT ![c] = PortBit(op, @) /\ \E i \in Slot : pins.data[i] = c]
      /\ set' = IF raced THEN set ELSE [set EXCEPT ![call[t].key] = PortBit(op, @)]
      /\ call' = [call EXCEPT ![t] = Idle]
      /\ UNCHANGED <<pins, raced>>

(* A copy that is not there yet is a null pointer: the program stops, and  *)
(* is started again.                                                       *)
CrashPin(t) == /\ call[t].pc = "use" /\ call[t].copy = NULL
               /\ pins' = [index |-> [i \in Slot |-> NoKey],
                           data  |-> [i \in Slot |-> NULL], used |-> 0]
               /\ copy' = [c \in Copy |-> FALSE]
               /\ call' = [u \in Thread |-> Idle]
               /\ set' = [k \in Key |-> FALSE]
               /\ raced' = FALSE

PinNext == \E t \in Thread :
  \/ \E pin \in Pin : CallPin(t, pin)
  \/ hash_read(t) \/ get_pin(t)
  \/ hash_write(t) \/ StoreKey(t) \/ StoreData(t) \/ IncrementUsed(t)
  \/ \E op \in {"on", "off", "get"} : UsePin(t, op)
  \/ CrashPin(t)

PinSpec == PinInit /\ [][PinNext]_pinVars
-----------------------------------------------------------------------------
PinTypeOK ==
  /\ pins \in [index : [Slot -> Key \cup {NoKey}], data : [Slot -> Copy \cup {NULL}],
               used : Slot]
  /\ copy \in [Copy -> BOOLEAN]
  /\ call \in [Thread -> [pc : {"idle", "read", "write", "key", "data", "used", "use"},
                          key : Key \cup {NoKey}, copy : Copy \cup {NULL}]]
  /\ set \in [Key -> BOOLEAN]
  /\ raced \in BOOLEAN

(* Every thread sees a pin as the calls of all threads have left it, or    *)
(* those for a pin of the same hash (C1 and B2 are one), as long as the    *)
(* table has room and two threads have not been in get_pin for a new pin   *)
(* at once: one of them would keep a copy the other never sees, or find    *)
(* none.                                                                   *)
PinsAreKept ==
  ~raced => \A k \in Key :
    LET slots == {i \in 0..(pins.used - 1) : pins.index[i] = k}
    IN  IF slots # {} THEN copy[pins.data[First(slots)]] = set[k]
        ELSE pins.used < TableSize => ~set[k]
=============================================================================
