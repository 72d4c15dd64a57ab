------------------------------ MODULE Interrupts ------------------------------
(***************************************************************************)
(* The interrupts of devices in project03: how the processors set up the   *)
(* controllers when they start (lapic.c, ioapic.c, picirq.c, uart.c,       *)
(* main.c), and how trap() handles and acknowledges what they deliver      *)
(* (trap.c, uart.c, console.c).                                            *)
(*                                                                         *)
(* The pins are edge-triggered: a pin that is already high raises nothing, *)
(* so a handler has to take all that its device has.  What arrives at a    *)
(* pin that is masked may be held by the I/O APIC or lost, as it is built. *)
(***************************************************************************)
EXTENDS Integers, Sequences, FiniteSets

CONSTANTS
  NCPU,      \* processors; processor c has APIC number c (ioapicenable)
  MaxEvents  \* bound: what the devices and the timers raise

InterruptsAssumption == NCPU \in Nat \ {0} /\ MaxEvents \in Nat

Cpu == 0 .. NCPU - 1
NONE == "none"
NOBODY == -1

\* Lines of the interrupts; IRQ_SPURIOUS is what a local APIC raises by itself.
Bytes   == {"IRQ_KBD", "IRQ_COM1"}  \* devices with a register for one byte
Pins    == Bytes \cup {"IRQ_IDE"}
Vectors == Pins \cup {"IRQ_TIMER", "IRQ_SPURIOUS"}

VARIABLES
  todo,   \* what each processor has still to do before it schedules
  mode,   \* of a processor: "off" (reset), "boot", "run", "cli" (interrupts off), "trap"
  vec,    \* what it handles, or NONE
  stage,  \* of the handler: "handle", "eoi", "end"
  irr,    \* interrupts a local APIC has accepted
  isr,    \* those it has delivered, which are not acknowledged
  lapic,  \* the local APICs that are enabled
  route,  \* the redirection table: the processor, or NOBODY for a pin that is masked
  pic,    \* whether the 8259s are masked
  full,   \* the devices that have something for the processor, whose pins are high
  lost,   \* devices whose edge was lost at a pin that was masked
  left    \* events to come

vars == <<todo, mode, vec, stage, irr, isr, lapic, route, pic, full, lost, left>>

\* main(), as far as it is about interrupts, and mpenter().
Main == <<"lapicinit", "picinit", "ioapicinit", "consoleinit", "uartack", "uartinit", "ideinit",
          "startothers", "idtinit", "sti">>
Mpenter == <<"lapicinit", "idtinit", "sti">>

Init ==
  /\ todo = [c \in Cpu |-> IF c = 0 THEN Main ELSE Mpenter]
  /\ mode = [c \in Cpu |-> IF c = 0 THEN "boot" ELSE "off"]
  /\ vec = [c \in Cpu |-> NONE] /\ stage = [c \in Cpu |-> "end"]
  /\ irr = [c \in Cpu |-> {}] /\ isr = [c \in Cpu |-> {}]
  /\ lapic = {} /\ pic = FALSE
  /\ route = [i \in Pins |-> NOBODY]
  /\ full = {} /\ lost = {} /\ left = MaxEvents

-----------------------------------------------------------------------------
(* The processors start. *)

At(c, step) == mode[c] = "boot" /\ todo[c] # <<>> /\ todo[c][1] = step /\ todo' = [todo EXCEPT ![c] = Tail(@)]

UnchangedHandlers == UNCHANGED <<vec, stage>>

\* lapicinit acknowledges what is outstanding.
Lapicinit(c) ==
  /\ At(c, "lapicinit")
  /\ lapic' = lapic \cup {c}
  /\ isr' = [isr EXCEPT ![c] = {}]
  /\ UNCHANGED <<mode, irr, route, pic, full, lost, left>> /\ UnchangedHandlers

Picinit(c) ==
  At(c, "picinit") /\ pic' = TRUE
  /\ UNCHANGED <<mode, irr, isr, lapic, route, full, lost, left>> /\ UnchangedHandlers

Ioapicinit(c) ==
  At(c, "ioapicinit") /\ route' = [i \in Pins |-> NOBODY]
  /\ UNCHANGED <<mode, irr, isr, lapic, pic, full, lost, left>> /\ UnchangedHandlers

\* ioapicenable: an edge that the I/O APIC has held goes to the processor.
Enable(irq, c) ==
  /\ route' = [route EXCEPT ![irq] = c]
  /\ irr' = [irr EXCEPT ![c] = IF irq \in full \ lost THEN @ \cup {irq} ELSE @]

Consoleinit(c) ==
  At(c, "consoleinit") /\ Enable("IRQ_KBD", 0)
  /\ UNCHANGED <<mode, isr, lapic, pic, full, lost, left>> /\ UnchangedHandlers

\* uartinit reads what is there away, and then enables the interrupt.
Uartack(c) ==
  At(c, "uartack") /\ full' = full \ {"IRQ_COM1"} /\ lost' = lost \ {"IRQ_COM1"}
  /\ UNCHANGED <<mode, irr, isr, lapic, route, pic, left>> /\ UnchangedHandlers

Uartinit(c) ==
  At(c, "uartinit") /\ Enable("IRQ_COM1", 0)
  /\ UNCHANGED <<mode, isr, lapic, pic, full, lost, left>> /\ UnchangedHandlers

Ideinit(c) ==
  At(c, "ideinit") /\ Enable("IRQ_IDE", NCPU - 1)
  /\ UNCHANGED <<mode, isr, lapic, pic, full, lost, left>> /\ UnchangedHandlers

\* The next processor starts when the one before it has set itself up.
Startothers(c) ==
  LET off == {a \in Cpu : mode[a] = "off"} IN
  /\ mode[c] = "boot" /\ todo[c] # <<>> /\ todo[c][1] = "startothers"
  /\ \A a \in Cpu \ {c} : mode[a] = "boot" => todo[a][1] = "sti"
  /\ IF off = {} THEN todo' = [todo EXCEPT ![c] = Tail(@)] /\ UNCHANGED mode
     ELSE mode' = [mode EXCEPT ![CHOOSE a \in off : \A b \in off : a <= b] = "boot"] /\ UNCHANGED todo
  /\ UNCHANGED <<irr, isr, lapic, route, pic, full, lost, left>> /\ UnchangedHandlers

Idtinit(c) ==
  At(c, "idtinit")
  /\ UNCHANGED <<mode, irr, isr, lapic, route, pic, full, lost, left>> /\ UnchangedHandlers

\* scheduler() turns the interrupts on.
Sti(c) ==
  At(c, "sti") /\ mode' = [mode EXCEPT ![c] = "run"]
  /\ UNCHANGED <<irr, isr, lapic, route, pic, full, lost, left>> /\ UnchangedHandlers

-----------------------------------------------------------------------------
(* Devices *)

\* A device has something: its pin goes high, unless it was.  (A byte that comes before
\* the last one was read takes its place.)
Raise(irq) ==
  /\ left > 0 /\ left' = left - 1
  /\ full' = full \cup {irq}
  /\ IF irq \in full THEN UNCHANGED <<irr, lost>>
     ELSE IF route[irq] # NOBODY
     THEN irr' = [irr EXCEPT ![route[irq]] = @ \cup {irq}] /\ UNCHANGED lost
     ELSE lost' \in {lost, lost \cup {irq}} /\ UNCHANGED irr
  /\ UNCHANGED <<todo, mode, isr, lapic, route, pic>> /\ UnchangedHandlers

\* The timer of a processor, or an interrupt that is withdrawn before it is taken.
Timer(c) ==
  /\ left > 0 /\ left' = left - 1 /\ c \in lapic
  /\ irr' = [irr EXCEPT ![c] = @ \cup {"IRQ_TIMER"}]
  /\ UNCHANGED <<todo, mode, isr, lapic, route, pic, full, lost>> /\ UnchangedHandlers

-----------------------------------------------------------------------------
(* trap() *)

\* The kernel turns the interrupts off and on around its locks.
Cli(c) ==
  /\ mode[c] \in {"run", "cli"}
  /\ mode' = [mode EXCEPT ![c] = IF @ = "run" THEN "cli" ELSE "run"]
  /\ UNCHANGED <<todo, irr, isr, lapic, route, pic, full, lost, left>> /\ UnchangedHandlers

\* All the vectors are of one priority: none is delivered before the last is acknowledged.
Deliver(c, v) ==
  /\ mode[c] = "run" /\ c \in lapic
  /\ \/ v \in irr[c] /\ isr[c] = {}
        /\ irr' = [irr EXCEPT ![c] = @ \ {v}] /\ isr' = [isr EXCEPT ![c] = {v}]
        /\ UNCHANGED left
     \/ v = "IRQ_SPURIOUS" /\ left > 0 /\ left' = left - 1 /\ UNCHANGED <<irr, isr>>
  /\ mode' = [mode EXCEPT ![c] = "trap"]
  /\ vec' = [vec EXCEPT ![c] = v] /\ stage' = [stage EXCEPT ![c] = "handle"]
  /\ UNCHANGED <<todo, lapic, route, pic, full, lost>>

InHandler(c, s) == mode[c] = "trap" /\ stage[c] = s

\* One turn of the loop of consoleintr, which reads till there is nothing; ideintr takes
\* what the disk has.  The timer and spurious interrupts have no device to read.
Handle(c) ==
  /\ InHandler(c, "handle")
  /\ IF vec[c] \in full
     THEN full' = full \ {vec[c]} /\ lost' = lost \ {vec[c]}
          /\ stage' = [stage EXCEPT ![c] = IF vec[c] \in Bytes THEN "handle" ELSE "eoi"]
     ELSE stage' = [stage EXCEPT ![c] = "eoi"] /\ UNCHANGED <<full, lost>>
  /\ UNCHANGED <<todo, mode, vec, irr, isr, lapic, route, pic, left>>

Lapiceoi(c) ==
  /\ InHandler(c, "eoi")
  /\ isr' = [isr EXCEPT ![c] = {}]
  /\ stage' = [stage EXCEPT ![c] = "end"]
  /\ UNCHANGED <<todo, mode, vec, irr, lapic, route, pic, full, lost, left>>

\* trap() returns, or yields to a process that runs with the interrupts on.
Return(c) ==
  /\ InHandler(c, "end")
  /\ mode' = [mode EXCEPT ![c] = "run"]
  /\ vec' = [vec EXCEPT ![c] = NONE]
  /\ UNCHANGED <<todo, stage, irr, isr, lapic, route, pic, full, lost, left>>

Next ==
  \/ \E irq \in Pins : Raise(irq)
  \/ \E c \in Cpu :
       \/ Lapicinit(c) \/ Picinit(c) \/ Ioapicinit(c) \/ Consoleinit(c) \/ Uartack(c) \/ Uartinit(c)
       \/ Ideinit(c) \/ Startothers(c) \/ Idtinit(c) \/ Sti(c)
       \/ Timer(c) \/ Cli(c) \/ Handle(c) \/ Lapiceoi(c) \/ Return(c)
       \/ \E v \in Vectors : Deliver(c, v)

Spec == Init /\ [][Next]_vars

-----------------------------------------------------------------------------
\* A device that has something will be heard: its interrupt is accepted, or its handler has
\* still to look, unless its pin is masked or was when the edge came.
DevicesHeard ==
  \A irq \in full :
    \/ route[irq] = NOBODY \/ irq \in lost
    \/ irq \in irr[route[irq]]
    \/ \E c \in Cpu : vec[c] = irq /\ stage[c] = "handle"

\* What is delivered is acknowledged before other code runs with the interrupts on, so that no
\* processor stays deaf; and interrupts come only to a processor that has its handlers and its
\* local APIC, from the I/O APIC alone (trap.c, main.c, picirq.c).
InterruptsAcknowledged ==
  \A c \in Cpu :
    /\ isr[c] # {} => mode[c] = "trap" /\ isr[c] = {vec[c]}
    /\ mode[c] \in {"run", "cli", "trap"} => todo[c] = <<>> /\ c \in lapic /\ pic
    /\ vec[c] \in Pins => route[vec[c]] = c
=============================================================================
