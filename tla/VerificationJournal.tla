------------------------- MODULE VerificationJournal -------------------------
(***************************************************************************)
(* The frozen test commands of a verification request are executed by the  *)
(* coordinator (execute_frozen_verification) and journalled in the table   *)
(* verification_command_executions: a command is STARTED in a transaction, *)
(* executed by the app server with command/exec, and COMPLETED in another. *)
(* The daemon may crash and the connection may be lost anywhere; a command *)
(* whose end is not known must not be executed again, and its round's      *)
(* evidence must be that of its own executions.                            *)
(*                                                                         *)
(* A verification that fails is followed by a new candidate and a new      *)
(* request: rounds 1, 2, .... The drive's other work between the rounds,   *)
(* and how the verification turn is found again, are in RunState and       *)
(* TurnDelivery; the turn of a round stays the same, as only turns without *)
(* executed commands are given up.                                         *)
(***************************************************************************)
EXTENDS Naturals

CONSTANTS
  Rounds,       \* verification requests the run can come to
  N,            \* frozen commands
  MaxFailures,  \* bound: lost connections and failed transactions
  MaxCrashes,   \* bound: crashes of the daemon
  NoExit        \* no exit code

ASSUME JournalAssumption ==
  /\ Rounds \in Nat \ {0} /\ N \in Nat \ {0}
  /\ MaxFailures \in Nat /\ MaxCrashes \in Nat
  /\ NoExit \notin {"zero", "nonzero"}

VARIABLES
  row,       \* runs: the status of the run and its verification request
  journal,   \* verification_command_executions of each request and index
  accepted,  \* runs: evidence of each request, once its answer is accepted
  drive,     \* the drive: program counter, command index, evidence so far
  wire,      \* external: command/exec requests sent and not executed
  reply,     \* external: exit code on its way to the drive, or NoExit
  executed,  \* external, history: how often each command was executed
  exit,      \* external, history: exit code of the last execution
  failures, crashes

journalStore == <<row, journal, accepted>>
app == <<wire, reply, executed, exit>>
journalVars ==
  <<row, journal, accepted, drive, wire, reply, executed, exit, failures, crashes>>

VerificationRequests == 1..Rounds
Commands  == 1..N
ExitCodes == {"zero", "nonzero"}
Claim     == [status: {"NONE", "STARTED", "COMPLETED"}, exit: ExitCodes \cup {NoExit}]
NoClaim   == [status |-> "NONE", exit |-> NoExit]
NoResults == [c \in Commands |-> NoExit]
Idle      == [at |-> "idle", index |-> 1, evidence |-> NoResults]

Index == drive.index

\* Looks for the command's index only and finds the claim of an earlier request.
RowMutant(c) ==
  IF journal[row.request][c] = NoClaim /\ row.request > 1
  THEN journal[row.request - 1][c] ELSE journal[row.request][c]

\* verification_command_claim_matches: the claim of this request and index.
Row(c) == journal[row.request][c]

\* Executes again what was begun before.
MayExecuteMutant(c) == Row(c).status # "COMPLETED"

\* begin_verification_command executes only what it has no claim of.
MayExecute(c) == Row(c).status = "NONE"

Reusable(c) == Row(c).status = "COMPLETED"

\* Treats an uncertain execution like a lost connection, to be tried again.
UncertainStatusMutant == "PAUSED"

\* VERIFICATION_EXECUTION_UNCERTAIN is no COMMUNICATION_FAILURE.
UncertainStatus == "BLOCKED"

\* append_verification_record, and on to the next command.
Collected(c, code) ==
  [drive EXCEPT !.at = "claim", !.index = @ + 1, !.evidence[c] = code]

-----------------------------------------------------------------------------
JournalInit ==
  /\ row = [status |-> "RUNNING", request |-> 1]
  /\ journal = [r \in VerificationRequests |-> [c \in Commands |-> NoClaim]]
  /\ accepted = [r \in VerificationRequests |-> NoResults]
  /\ drive = Idle /\ wire = {} /\ reply = NoExit
  /\ executed = [r \in VerificationRequests |-> [c \in Commands |-> 0]]
  /\ exit = [r \in VerificationRequests |-> NoResults]
  /\ failures = 0 /\ crashes = 0

Stops(status) == drive' = Idle /\ reply' = NoExit /\ row' = [row EXCEPT !.status = status]

\* The completed verification turn is found and execute_frozen_verification begins.
BeginVerification ==
  /\ drive.at = "idle" /\ row.status = "RUNNING"
  /\ drive' = [Idle EXCEPT !.at = "claim"]
  /\ UNCHANGED <<journalStore, app, failures, crashes>>

\* begin_verification_command: Execute
ClaimCommand ==
  /\ drive.at = "claim" /\ Index \in Commands /\ MayExecute(Index)
  /\ journal' = [journal EXCEPT ![row.request][Index] = [status |-> "STARTED", exit |-> NoExit]]
  /\ drive' = [drive EXCEPT !.at = "send"]
  /\ UNCHANGED <<row, accepted, app, failures, crashes>>

\* begin_verification_command: Reuse
ReuseCommand ==
  /\ drive.at = "claim" /\ Index \in Commands
  /\ ~MayExecute(Index) /\ Reusable(Index)
  /\ drive' = Collected(Index, Row(Index).exit)
  /\ UNCHANGED <<journalStore, app, failures, crashes>>

\* begin_verification_command: the claim is STARTED.
ExecutionUncertain ==
  /\ drive.at = "claim" /\ Index \in Commands
  /\ ~MayExecute(Index) /\ ~Reusable(Index)
  /\ Stops(UncertainStatus)
  /\ UNCHANGED <<journal, accepted, wire, executed, exit, failures, crashes>>

\* execute_command writes its request.
SendCommand ==
  /\ drive.at = "send"
  /\ wire' = wire \cup {[request |-> row.request, index |-> Index]}
  /\ drive' = [drive EXCEPT !.at = "wait"]
  /\ UNCHANGED <<journalStore, reply, executed, exit, failures, crashes>>

\* complete_verification_command
CompleteCommand ==
  /\ drive.at = "wait" /\ reply # NoExit
  /\ journal' = [journal EXCEPT ![row.request][Index] = [status |-> "COMPLETED", exit |-> reply]]
  /\ drive' = Collected(Index, reply)
  /\ reply' = NoExit
  /\ UNCHANGED <<row, accepted, wire, executed, exit, failures, crashes>>

\* All commands are done: the answer is accepted with their evidence. Failed
\* tests lead to a new candidate and its own request.
AcceptEvidence ==
  /\ drive.at = "claim" /\ Index = N + 1
  /\ accepted' = [accepted EXCEPT ![row.request] = drive.evidence]
  /\ drive' = Idle
  /\ row' = IF (\A c \in Commands : drive.evidence[c] = "zero") \/ row.request = Rounds
            THEN [row EXCEPT !.status = "VERIFIED"]
            ELSE [row EXCEPT !.request = @ + 1]
  /\ UNCHANGED <<journal, app, failures, crashes>>

\* command/exec fails: COMMUNICATION_FAILURE pauses the run.
CommandFails ==
  /\ failures < MaxFailures /\ failures' = failures + 1
  /\ drive.at \in {"send", "wait"}
  /\ Stops("PAUSED")
  /\ UNCHANGED <<journal, accepted, wire, executed, exit, crashes>>

\* A transaction of the drive fails: DATABASE_ERROR blocks the run.
StoreFails ==
  /\ failures < MaxFailures /\ failures' = failures + 1
  /\ drive.at = "claim" \/ reply # NoExit
  /\ Stops("BLOCKED")
  /\ UNCHANGED <<journal, accepted, wire, executed, exit, crashes>>

Resume ==
  /\ row.status = "PAUSED"
  /\ row' = [row EXCEPT !.status = "RUNNING"]
  /\ UNCHANGED <<journal, accepted, drive, app, failures, crashes>>

CrashDaemon ==
  /\ crashes < MaxCrashes /\ crashes' = crashes + 1
  /\ drive' = Idle /\ reply' = NoExit
  /\ UNCHANGED <<journalStore, wire, executed, exit, failures>>

\* The app server executes a command; the drive learns of it while it waits.
ExecuteCommand ==
  /\ \E w \in wire, code \in ExitCodes :
       /\ wire' = wire \ {w}
       /\ executed' = [executed EXCEPT ![w.request][w.index] = @ + 1]
       /\ exit' = [exit EXCEPT ![w.request][w.index] = code]
       /\ reply' = IF drive.at = "wait" /\ w = [request |-> row.request, index |-> Index]
                   THEN code ELSE reply
  /\ UNCHANGED <<journalStore, drive, failures, crashes>>

\* A request whose connection was lost is never executed.
LoseCommand ==
  /\ drive.at # "wait"
  /\ \E w \in wire : wire' = wire \ {w}
  /\ UNCHANGED <<journalStore, drive, reply, executed, exit, failures, crashes>>

DriveVerification ==
  \/ BeginVerification \/ ClaimCommand \/ ReuseCommand \/ ExecutionUncertain
  \/ SendCommand \/ CompleteCommand \/ AcceptEvidence

AppServer == ExecuteCommand \/ LoseCommand

JournalNext == DriveVerification \/ AppServer \/ CommandFails \/ StoreFails \/ Resume \/ CrashDaemon

JournalSpec == JournalInit /\ [][JournalNext]_journalVars

\* The daemon works on a running run, the app server executes commands, and the
\* user resumes a paused run.
FairJournalSpec ==
  /\ JournalSpec
  /\ WF_journalVars(DriveVerification) /\ WF_journalVars(AppServer) /\ WF_journalVars(Resume)

-----------------------------------------------------------------------------
(* Properties *)

JournalTypeOK ==
  /\ row \in [status: {"RUNNING", "PAUSED", "BLOCKED", "VERIFIED"}, request: VerificationRequests]
  /\ journal \in [VerificationRequests -> [Commands -> Claim]]
  /\ accepted \in [VerificationRequests -> [Commands -> ExitCodes \cup {NoExit}]]
  /\ drive \in [at: {"idle", "claim", "send", "wait"}, index: 1..N + 1,
                evidence: [Commands -> ExitCodes \cup {NoExit}]]
  /\ wire \subseteq [request: VerificationRequests, index: Commands]
  /\ reply \in ExitCodes \cup {NoExit}
  /\ executed \in [VerificationRequests -> [Commands -> Nat]]
  /\ exit \in [VerificationRequests -> [Commands -> ExitCodes \cup {NoExit}]]

\* A frozen command is executed at most once for a request, whatever answer was
\* lost and wherever the daemon crashed (docs/recovery.md: "will not rerun it").
ExecutedAtMostOnce ==
  \A r \in VerificationRequests, c \in Commands : executed[r][c] <= 1

\* The evidence a verification is accepted with is what the commands did for
\* this very request: all of them were executed, and none of their results is
\* left over from an earlier candidate.
EvidenceIsOfThisRequest ==
  \A r \in VerificationRequests :
    accepted[r] # NoResults =>
      \A c \in Commands : executed[r][c] = 1 /\ accepted[r][c] = exit[r][c]

\* A command is executed only when those before it have a recorded end, also
\* after a crash: a test never runs beside, or after, one of uncertain effect.
OneAtATime ==
  \A r \in VerificationRequests, c, d \in Commands :
    executed[r][c] > 0 /\ d < c => journal[r][d].status = "COMPLETED"

\* A verification ends: with evidence, or blocked when the end of a command is
\* uncertain or the journalStore failed.
VerificationEnds == <>(row.status \in {"VERIFIED", "BLOCKED"})

=============================================================================
