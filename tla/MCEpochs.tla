------------------------------ MODULE MCEpochs ------------------------------
(***************************************************************************)
(* The epoch boundary (GlobalFlush) and the persistence components for     *)
(* TLC: a behaviour is one of one of them, chosen by part.                 *)
(***************************************************************************)
EXTENDS MCPersist, GlobalFlush

\* In a behaviour of another part the threads of GlobalFlush are out.
NoFlush ==
  /\ influshWarning = FALSE /\ waitingFlush = FALSE /\ doneThreads = 0
  /\ ack_sem = 0 /\ flush_ack_sem = 0 /\ clock = 1 /\ epoch = 1
  /\ place = [t \in Workers |-> "end"] /\ e = [t \in Workers |-> 0]
  /\ left = [t \in Workers |-> 0] /\ ops = [t \in Workers |-> 0] /\ spinning = {}
  /\ flushes = 0 /\ acked = [t \in Workers |-> 0] /\ truncated = [t \in Workers |-> 0]

InitFlush ==
  /\ part = "flush" /\ Init
  /\ globalepoch = None /\ committed = None /\ slips = None
  /\ NoLog /\ NoLazy /\ NoPtr /\ NoRcu
NextFlush == part = "flush" /\ AssumedNext /\ UNCHANGED vars

\* Once something has slipped the properties of the node logs say nothing.
UntilSlip == part = "log" => slips = {}
NextPart ==
  UntilSlip /\ (NextLog \/ NextLazy \/ NextPtr \/ NextRcu) /\ UNCHANGED flushVars

EpochsSpec ==
  /\ InitFlush \/ ((InitLog \/ InitLazy \/ InitPtr \/ InitRcu) /\ NoFlush)
  /\ [][NextFlush \/ NextPart]_<<vars, flushVars>>
  /\ Fair /\ Fairness
=============================================================================
