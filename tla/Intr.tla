-------------------------------- MODULE Intr ---------------------------------
(***************************************************************************)
(* Interrupts for programs: procwaitintr() and irqhandler() of             *)
(* am335x/trap.c.  A program waits for the interrupt of its device and then*)
(* serves the device, which holds its line up until then.  A process can be*)
(* preempted before interrupts are off; from there to the switch in        *)
(* procwait() is one step, and so is the handler, which returns at once    *)
(* when nobody waits.  The controller signals no interrupt that is masked. *)
(***************************************************************************)
EXTENDS FiniteSets

CONSTANTS Procs, None,
          Irqs,    \* the numbers below nirq
          Handled  \* those with a handler of the kernel: intcaddhandler()
IntrAssumption == None \notin Procs /\ Handled \subseteq Irqs

VARIABLES waiting, \* by irq: the process, or nil
          masked,  \* the mask bits of the interrupt controller
          raised,  \* the lines that devices hold up
          at       \* where a process is: [pc, irq]
vars == <<waiting, masked, raised, at>>

User == [pc |-> "user", irq |-> None]
Init == /\ waiting = [i \in Irqs |-> None] /\ masked = Irqs \ Handled
        /\ raised = {} /\ at = [q \in Procs |-> User]

Goto(q, label, i) == at' = [at EXCEPT ![q] = [pc |-> label, irq |-> i]]
At(q, label, i) == at[q] = [pc |-> label, irq |-> i]

Device(i) == /\ i \notin raised /\ raised' = raised \cup {i}
             /\ UNCHANGED <<waiting, masked, at>>

(* The tests of procwaitintr(): a number the kernel has a handler for is   *)
(* refused.                                                                *)
Call(q, i) == /\ at[q] = User /\ i \notin Handled
              /\ Goto(q, "cas", i)
              /\ UNCHANGED <<waiting, masked, raised>>

Publish(q, i) == /\ At(q, "cas", i) /\ waiting[i] = None
                 /\ waiting' = [waiting EXCEPT ![i] = q]
                 /\ Goto(q, "unmask", i)
                 /\ UNCHANGED <<masked, raised>>

(* Somebody waits already, or an exception came inside the cas.            *)
Refused(q, i) == /\ At(q, "cas", i)
                 /\ at' = [at EXCEPT ![q] = User]
                 /\ UNCHANGED <<waiting, masked, raised>>

(* With interrupts off: unmaskintr() and procwait()                        *)
Sleep(q, i) == /\ At(q, "unmask", i)
               /\ masked' = masked \ {i}
               /\ Goto(q, "asleep", i)
               /\ UNCHANGED <<waiting, raised>>

(* procready() does nothing for a process that does not sleep.             *)
Woken(p, i) == IF At(p, "asleep", i) THEN [at EXCEPT ![p].pc = "woken"] ELSE at

(* Mutant: the interrupt stays unmasked. *)
WakeOpen(i) == /\ i \in raised \ (masked \cup Handled) /\ waiting[i] # None
               /\ waiting' = [waiting EXCEPT ![i] = None]
               /\ at' = Woken(waiting[i], i)
               /\ UNCHANGED <<masked, raised>>

(* irqhandler() for a program *)
Wake(i) == /\ i \in raised \ (masked \cup Handled) /\ waiting[i] # None
           /\ waiting' = [waiting EXCEPT ![i] = None]
           /\ masked' = masked \cup {i}
           /\ at' = Woken(waiting[i], i)
           /\ UNCHANGED raised

(* The kernel's handler, which serves its device. *)
Handle(i) == /\ i \in raised \cap Handled
             /\ raised' = raised \ {i}
             /\ UNCHANGED <<waiting, masked, at>>

(* The program serves the device. *)
Serve(q, i) == /\ At(q, "woken", i)
               /\ raised' = raised \ {i} /\ at' = [at EXCEPT ![q] = User]
               /\ UNCHANGED <<waiting, masked>>

Next == \E i \in Irqs :
          \/ Device(i) \/ Wake(i) \/ Handle(i)
          \/ \E q \in Procs : Call(q, i) \/ Publish(q, i) \/ Refused(q, i) \/ Sleep(q, i) \/ Serve(q, i)

Spec == Init /\ [][Next]_vars
-----------------------------------------------------------------------------
TypeOK == /\ waiting \in [Irqs -> Procs \cup {None}]
          /\ masked \subseteq Irqs /\ raised \subseteq Irqs
          /\ at \in [Procs -> [pc : {"user", "cas", "unmask", "asleep", "woken"},
                               irq : Irqs \cup {None}]]

(* However waits for one interrupt overlap: it is unmasked exactly while   *)
(* the process it will wake is asleep.  Otherwise the process is asleep for*)
(* ever, or irqhandler() finds nobody, returns with the line up and is     *)
(* entered again at once, for ever.                                        *)
Asleep(i) == {q \in Procs : At(q, "asleep", i)}
WaitersHear == \A i \in Irqs \ Handled :
                 /\ i \notin masked <=> Asleep(i) # {}
                 /\ Asleep(i) \subseteq {waiting[i]}
=============================================================================
