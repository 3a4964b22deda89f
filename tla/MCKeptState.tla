----------------------------- MODULE MCKeptState -----------------------------
(* What a part keeps from one step to the next: the interpreter's indexed  *)
(* file from statement to statement and its frames from call to call, the  *)
(* decoder of the language server from chunk to chunk, the ledger's tables *)
(* from call to call, and a batch's restart file from run to run.  Each    *)
(* initial state is of one of them, and the variables of the others stay   *)
(* where they are.                                                         *)
EXTENDS MCIndexedFile, Interpreter, MCMessageFraming, MCBankLedger, MCCheckpointedBatch

VARIABLE part

NoFile == Init /\ present = FALSE

NoFrames ==
    /\ stack = <<>> /\ callStack = <<>>
    /\ localFrames = [p \in LoadedPrograms |-> 0]
    /\ sortWork = [p \in LoadedPrograms |-> "none"]
    /\ sortReturn = FALSE /\ inDeclarative = FALSE
    /\ steps = 0 /\ outcome = "ended"

NoWire == wire = << >> /\ arrived = 0 /\ buffer = << >> /\ messages = << >>

NoLedger == LedgerInit

NoBatch ==
    /\ job = CHOOSE j \in Jobs : TRUE
    /\ pc = "done" /\ saved = Rows /\ posted = [r \in 1..Rows |-> 1]
    /\ point = 0 /\ row = 0 /\ taken = 0 /\ counter = 0 /\ unit = {}
    /\ crashes = 0 /\ failures = 0

PartsInit ==
    \/ part = "file"   /\ Init        /\ NoFrames /\ NoWire   /\ NoLedger /\ NoBatch
    \/ part = "frames" /\ ImInit      /\ NoFile   /\ NoWire   /\ NoLedger /\ NoBatch
    \/ part = "wire"   /\ FramingInit /\ NoFile   /\ NoFrames /\ NoLedger /\ NoBatch
    \/ part = "ledger" /\ LedgerInit  /\ NoFile   /\ NoFrames /\ NoWire   /\ NoBatch
    \/ part = "batch"  /\ BatchInit   /\ NoFile   /\ NoFrames /\ NoWire   /\ NoLedger

FileStep == OrderlyNext /\ UNCHANGED <<part, imVars, framingVars, ledgerVars, batchVars>>
FrameStep == ImNext /\ UNCHANGED <<part, vars, framingVars, ledgerVars, batchVars>>
WireStep == FramingNext /\ UNCHANGED <<part, vars, imVars, ledgerVars, batchVars>>
LedgerStep == LedgerNext /\ UNCHANGED <<part, vars, imVars, framingVars, batchVars>>
BatchStep == BatchNext /\ UNCHANGED <<part, vars, imVars, framingVars, ledgerVars>>
PartsNext ==
    \/ part = "file" /\ FileStep
    \/ part = "frames" /\ FrameStep
    \/ part = "wire" /\ WireStep
    \/ part = "ledger" /\ LedgerStep
    \/ part = "batch" /\ BatchStep

(* Each part's fairness is its own: that of the frames, of a ROLLBK that   *)
(* was called, and of the batch and its rerun.                             *)
PartsSpec ==
    /\ PartsInit
    /\ [][PartsNext]_<<part, vars, imVars, framingVars, ledgerVars, batchVars>>
    /\ WF_imVars(part = "frames" /\ ImNext)
    /\ WF_ledgerVars(part = "ledger" /\ Rollback)
    /\ WF_batchVars(part = "batch" /\ Step)
=============================================================================
