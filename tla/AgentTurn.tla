----------------------------- MODULE AgentTurn -----------------------------
(***************************************************************************)
(* One text turn of the agent (agent/conversation.cc) against the chat     *)
(* endpoint (agent/llm_client.cc).  A worker thread asks the model with a  *)
(* copy of the history, runs the tools the model asks for, feeds one       *)
(* result per call back, and merges the copy when the turn succeeded.      *)
(* The endpoint is external: it may answer, ask for tools, fail, or send   *)
(* a body the parser rejects.                                              *)
(***************************************************************************)
EXTENDS Integers, Sequences

CONSTANTS
  kMaxToolRounds,  (* 6 in the code                                         *)
  MaxAsked,        (* bound: tool calls in one answer                       *)
  MaxSends         (* bound: turns in a behaviour                           *)

ASSUME TurnAssumption == kMaxToolRounds \in Nat /\ MaxAsked \in Nat /\ MaxSends \in Nat

VARIABLES
  history,    (* history_                                                   *)
  busy,       (* busy_                                                      *)
  turnAt,     (* where the worker of the turn is                            *)
  hist,       (* its copy of the history                                    *)
  rounds,     (* requests made in this turn                                 *)
  callsAsked, (* tool calls of the last answer                              *)
  ran,        (* how many of them have run                                  *)
  failed,     (* err is not empty                                           *)
  sends,      (* turns accepted                                             *)
  calling,    (* workers that are past busy_ and owe their callback         *)
  answered,   (* callbacks made                                             *)
  alive       (* the process runs                                           *)

turnVars == <<history, busy, turnAt, hist, rounds, callsAsked, ran, failed, sends, calling,
              answered, alive>>

(* A message: "ask" is the assistant's with tool calls, n of them; "tool"  *)
(* answers the n-th call of the last one.                                  *)
User == [role |-> "user", n |-> 0]
Assistant == [role |-> "assistant", n |-> 0]
ToolCalls(n) == [role |-> "ask", n |-> n]
ToolResult(n) == [role |-> "tool", n |-> n]
Message == [role : {"user", "assistant", "ask", "tool"}, n : 0 .. MaxAsked]

TurnTypeOK ==
  /\ history \in Seq(Message) /\ hist \in Seq(Message)
  /\ busy \in BOOLEAN /\ failed \in BOOLEAN /\ alive \in BOOLEAN
  /\ turnAt \in {"none", "round", "tools", "merge", "release"}
  /\ rounds \in 0 .. kMaxToolRounds /\ callsAsked \in 0 .. MaxAsked /\ ran \in 0 .. MaxAsked
  /\ sends \in 0 .. MaxSends /\ calling \in 0 .. MaxSends /\ answered \in 0 .. MaxSends

TurnInit ==
  /\ history = <<>> /\ hist = <<>>
  /\ busy = FALSE /\ failed = FALSE /\ alive = TRUE
  /\ turnAt = "none" /\ rounds = 0 /\ callsAsked = 0 /\ ran = 0
  /\ sends = 0 /\ calling = 0 /\ answered = 0

(* Send: refused while busy; the user's message is in the history, and in  *)
(* the worker's copy, before the worker starts.                            *)
Send ==
  /\ alive /\ ~busy /\ sends < MaxSends
  /\ busy' = TRUE
  /\ history' = Append(history, User)
  /\ hist' = Append(history, User)
  /\ turnAt' = "round" /\ rounds' = 0 /\ callsAsked' = 0 /\ ran' = 0 /\ failed' = FALSE
  /\ sends' = sends + 1
  /\ UNCHANGED <<calling, answered, alive>>

(* RunWithTools: the rounds are used up.                                   *)
RoundsOver ==
  /\ turnAt = "round" /\ rounds = kMaxToolRounds
  /\ failed' = TRUE /\ turnAt' = "merge"
  /\ UNCHANGED <<history, busy, hist, rounds, callsAsked, ran, sends, calling, answered, alive>>

(* ChatWithTools fails: not configured, no connection, a status outside    *)
(* 2xx, or a body the parser throws on ("content": null does).             *)
RequestFails ==
  /\ turnAt = "round" /\ rounds < kMaxToolRounds
  /\ rounds' = rounds + 1
  /\ failed' = TRUE /\ turnAt' = "merge"
  /\ UNCHANGED <<history, busy, hist, callsAsked, ran, sends, calling, answered, alive>>

(* An answer without tool calls ends the turn; its text may be empty.      *)
RequestAnswers ==
  /\ turnAt = "round" /\ rounds < kMaxToolRounds
  /\ rounds' = rounds + 1
  /\ hist' = Append(hist, Assistant)
  /\ turnAt' = "merge"
  /\ UNCHANGED <<history, busy, callsAsked, ran, failed, sends, calling, answered, alive>>

(* An answer with n tool calls is replayed verbatim.                       *)
RequestAsks ==
  /\ turnAt = "round" /\ rounds < kMaxToolRounds
  /\ rounds' = rounds + 1
  /\ \E n \in 1 .. MaxAsked : hist' = Append(hist, ToolCalls(n)) /\ callsAsked' = n /\ ran' = 0
  /\ turnAt' = "tools"
  /\ UNCHANGED <<history, busy, failed, sends, calling, answered, alive>>

(* Mutant: an unknown tool is skipped instead of answered with an error.   *)
RunToolSkip ==
  /\ turnAt = "tools" /\ ran < callsAsked
  /\ \/ hist' = Append(hist, ToolResult(ran + 1))
     \/ hist' = hist
  /\ ran' = ran + 1
  /\ UNCHANGED <<history, busy, turnAt, rounds, callsAsked, failed, sends, calling, answered,
                 alive>>

(* One call: an unknown tool is answered with an error, and so is a tool   *)
(* that reports one.                                                       *)
RunTool ==
  /\ turnAt = "tools" /\ ran < callsAsked
  /\ hist' = Append(hist, ToolResult(ran + 1))
  /\ ran' = ran + 1
  /\ UNCHANGED <<history, busy, turnAt, rounds, callsAsked, failed, sends, calling, answered,
                 alive>>

(* Nothing on the worker catches what a tool throws (the timer does, on    *)
(* "minutes": "10") or what dump() throws on a result that was cut in the  *)
(* middle of a character, and the process ends.                            *)
ToolThrows ==
  /\ \/ turnAt = "tools" /\ ran < callsAsked
     \/ turnAt = "round" /\ 0 < rounds /\ rounds < kMaxToolRounds
  /\ alive' = FALSE /\ turnAt' = "none"
  /\ UNCHANGED <<history, busy, hist, rounds, callsAsked, ran, failed, sends, calling, answered>>

ToolsDone ==
  /\ turnAt = "tools" /\ ran = callsAsked
  /\ turnAt' = "round"
  /\ UNCHANGED <<history, busy, hist, rounds, callsAsked, ran, failed, sends, calling, answered,
                 alive>>

(* Mutant: the copy is merged after an error too.                          *)
MergeAlways ==
  /\ turnAt = "merge"
  /\ history' = hist
  /\ turnAt' = "release"
  /\ UNCHANGED <<busy, hist, rounds, callsAsked, ran, failed, sends, calling, answered, alive>>

(* The copy replaces the history of a turn that succeeded.                 *)
Merge ==
  /\ turnAt = "merge"
  /\ history' = IF failed THEN history ELSE hist
  /\ turnAt' = "release"
  /\ UNCHANGED <<busy, hist, rounds, callsAsked, ran, failed, sends, calling, answered, alive>>

(* Mutant: nobody is told of a turn that failed.                           *)
ReleaseQuietly ==
  /\ turnAt = "release"
  /\ busy' = FALSE /\ turnAt' = "none"
  /\ calling' = IF failed THEN calling ELSE calling + 1
  /\ UNCHANGED <<history, hist, rounds, callsAsked, ran, failed, sends, answered, alive>>

(* busy_ is cleared before the callback runs: the next turn may start, and *)
(* even end, in between.                                                   *)
ReleaseBusy ==
  /\ turnAt = "release"
  /\ busy' = FALSE /\ turnAt' = "none"
  /\ calling' = calling + 1
  /\ UNCHANGED <<history, hist, rounds, callsAsked, ran, failed, sends, answered, alive>>

Callback ==
  /\ alive /\ calling > 0
  /\ calling' = calling - 1
  /\ answered' = answered + 1
  /\ UNCHANGED <<history, busy, turnAt, hist, rounds, callsAsked, ran, failed, sends, alive>>

WorkerTurn ==
  \/ RoundsOver \/ RequestFails \/ RequestAnswers \/ RequestAsks
  \/ RunTool \/ ToolThrows \/ ToolsDone \/ Merge \/ ReleaseBusy

TurnNext == Send \/ WorkerTurn \/ Callback

TurnSpec == TurnInit /\ [][TurnNext]_turnVars

(* The worker runs to its end: a request has a time limit.                 *)
FairTurnSpec == TurnSpec /\ WF_turnVars(WorkerTurn) /\ WF_turnVars(Callback)

-----------------------------------------------------------------------------
(* The results that follow an ask, up to the next message that is none,    *)
(* are the answers to its calls, once each and in order.                   *)
Answered(h) ==
  \A i \in 1 .. Len(h) : h[i].role = "ask" =>
    \A k \in 1 .. h[i].n : i + k <= Len(h) /\ h[i + k] = ToolResult(k)

(* A result stands behind an ask that has it.                              *)
Backed(h) ==
  \A i \in 1 .. Len(h) : h[i].role = "tool" =>
    \E j \in 1 .. i - 1 : /\ h[j].role = "ask"
                          /\ h[i] = ToolResult(i - j) /\ i - j <= h[j].n

WellFormed(h) == Answered(h) /\ Backed(h)

(* "OpenAI requires one tool message per tool_call" (conversation.cc:88):  *)
(* whatever the model asked for and whichever turns failed before, every   *)
(* request carries a conversation in which each ask has exactly its        *)
(* results, and so does what is kept.                                      *)
RequestsWellFormed ==
  WellFormed(history) /\ (turnAt = "round" => WellFormed(hist))

(* A turn only adds to the history, and one that failed leaves nothing in  *)
(* it but what the user said.                                              *)
FailureLeavesNoTrace ==
  failed => history # <<>> /\ history[Len(history)] = User

(* A turn that was accepted is answered, or the process is gone: no model  *)
(* can keep the worker in tool rounds for ever.                            *)
TurnsAreAnswered == (sends > answered) ~> (sends = answered \/ ~alive)
=============================================================================
