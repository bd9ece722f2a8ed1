--------------------------- MODULE PartialRollout ---------------------------
(***************************************************************************)
(* Interrupted generation (partial_rollout): the agent loops of a sample   *)
(* on a worker, the servers that generate for them, and the cancel and     *)
(* resume of the manager around a parameter synchronisation.               *)
(*                                                                         *)
(* The rollouter is seen through pause, update_param_version, resume, the  *)
(* monitor that may undo a pause, and the submission of samples; module    *)
(* Rollouter has its own interleavings.                                    *)
(***************************************************************************)
EXTENDS Integers, Sequences, SequencesExt, FiniteSets

CONSTANTS
    Servers,
    NumWorkers,         (* agent loop workers                               *)
    Samples,
    N,                  (* rollout.n: responses of a sample                 *)
    ResponseLength,
    MaxModelLen,        (* tokens of a prompt and its response together     *)
    ToolLength,         (* tokens of a tool's answer                        *)
    MaxSyncs,           (* bound: one synchronisation less for each open    *)
                        (* response                                         *)
    MaxRacing           (* bound: the same for pauses the monitor undoes    *)

ASSUME PartialAssumption ==
    /\ N \in Nat \ {0}
    /\ ResponseLength \in Nat \ {0}
    /\ MaxModelLen \in Nat /\ MaxModelLen > ResponseLength
    /\ ToolLength \in Nat \ {0}
    /\ MaxSyncs \in Nat /\ MaxRacing \in Nat
    /\ NumWorkers \in Nat \ {0}
    /\ IsFiniteSet(Servers) /\ Servers # {} /\ Servers \cap (1..NumWorkers) = {}
    /\ IsFiniteSet(Samples)

Loops   == Samples \X (1..N)
Workers == 1..NumWorkers

(* A token is its kind and the version of the weights that produced it.    *)
(* "text" goes on, "open" is the first half of a tool call, "close" its    *)
(* second half, and "close" or "eos" end a turn.                           *)
Kinds == {"text", "open", "close", "eos", "tool"}

None == << <<"none", 0>> >>     (* no output, no server                         *)

VARIABLES
    agent,              (* "single_turn" or "tool"                          *)
    param_version,
    sync,               (* where the synchronisation is                     *)
    submission,         (* FALSE: the rollouter's own paused is set         *)
    told,               (* servers and workers that took the present call   *)
    paused,             (* paused[s]: server s refuses requests             *)
    cancellation_event, (* cancellation_event[w]: worker w's shared event   *)
    next_worker,
    task,               (* task[s]: what the rollouter knows of sample s    *)
    worker,             (* worker[s]: where its loops run                   *)
    sample_version,     (* param_version handed to the loops of s           *)
    pc, at,             (* pc[l]; at[l]: the server of l's request          *)
    cancel_event,       (* cancel_event[l]: the event of l's request is set *)
    req_output,         (* req_output[l]: tokens of the request, or None    *)
    generating,         (* requests whose generation is neither done nor    *)
                        (* cancelled                                        *)
    reply,              (* reply[l]: what generate_for_partial returned     *)
    out                 (* out[l]: the loop's output, kept between runs     *)

syncVars   == <<param_version, sync, submission, told>>
flagVars   == <<paused, cancellation_event>>
taskVars   == <<next_worker, task, worker, sample_version>>
serverVars == <<cancel_event, req_output, generating>>
vars == <<agent, syncVars, flagVars, taskVars, pc, at, serverVars, reply, out>>

NoReply == [tokens |-> <<>>, is_cancel |-> FALSE]
Fresh   == [text |-> <<>>, mask |-> <<>>, state |-> "PENDING", ran |-> 0,
            since |-> 0, until |-> 0, status |-> "new"]

Init ==
    /\ agent \in {"single_turn", "tool"}
    /\ param_version = 0 /\ sync = "run" /\ submission = TRUE /\ told = {}
    /\ paused = [s \in Servers |-> FALSE]
    /\ cancellation_event = [w \in Workers |-> FALSE]
    /\ next_worker = 1
    /\ task = [s \in Samples |-> "waiting"]
    /\ worker = [s \in Samples |-> 1]
    /\ sample_version = [s \in Samples |-> 0]
    /\ pc = [l \in Loops |-> "idle"] /\ at = [l \in Loops |-> None]
    /\ cancel_event = [l \in Loops |-> FALSE]
    /\ req_output = [l \in Loops |-> None]
    /\ generating = {}
    /\ reply = [l \in Loops |-> NoReply]
    /\ out = [l \in Loops |-> Fresh]

Goto(l, label) == pc' = [pc EXCEPT ![l] = label]
Ones(tokens)   == [i \in 1..Len(tokens) |-> 1]
Clip(seq)      == SubSeq(seq, 1, IF Len(seq) < ResponseLength THEN Len(seq) ELSE ResponseLength)

-----------------------------------------------------------------------------
(* The rollouter: samples                                                  *)

(* Each run of the loops is labelled with the version of its start.        *)
(* Mutant of Version: only the first run is.                               *)
VersionOnce(s) == IF task[s] = "waiting" THEN param_version ELSE sample_version[s]
Version(s)     == param_version

(* pause and resume keep the rollouter's lock while they tell the servers  *)
(* and workers.                                                            *)
Locked == sync \in {"cancel", "resume"}

(* A loop that is complete hands back the output it has.                   *)
Start(l) == IF out[l].status = "completed" THEN "returned" ELSE "begin"

(* The loops of s start on the next worker.                                *)
Submit(s) ==
    /\ submission /\ ~Locked /\ task[s] \in {"waiting", "cancelled"}
    /\ task' = [task EXCEPT ![s] = "active"]
    /\ worker' = [worker EXCEPT ![s] = next_worker]
    /\ next_worker' = (next_worker % NumWorkers) + 1
    /\ sample_version' = [sample_version EXCEPT ![s] = Version(s)]
    /\ pc' = [l \in Loops |-> IF l[1] = s THEN Start(l) ELSE pc[l]]
    /\ UNCHANGED <<agent, syncVars, flagVars, at, serverVars, reply, out>>

(* generate_sequences_no_post gathers its loops; one interrupted loop      *)
(* sends the whole sample back to cancel_queue.                            *)
Gather(s) ==
    /\ task[s] = "active"
    /\ \A i \in 1..N : pc[<<s, i>>] = "returned"
    /\ task' = [task EXCEPT ![s] =
          IF \E i \in 1..N : out[<<s, i>>].status = "cancelled" THEN "cancelled" ELSE "done"]
    /\ pc' = [l \in Loops |-> IF l[1] = s THEN "idle" ELSE pc[l]]
    /\ UNCHANGED <<agent, syncVars, flagVars, next_worker, worker, sample_version,
                   at, serverVars, reply, out>>

-----------------------------------------------------------------------------
(* The rollouter: synchronisation                                          *)

Open == {l \in Loops : out[l].status # "completed"}

PauseBegin ==
    /\ sync = "run" /\ param_version + Cardinality(Open) <= MaxSyncs
    /\ sync' = "cancel" /\ submission' = FALSE /\ told' = {}
    /\ UNCHANGED <<agent, param_version, flagVars, taskVars, pc, at, serverVars, reply, out>>

(* Server s refuses further requests and sets the event of every request   *)
(* it has.                                                                 *)
CancelServer(s) ==
    /\ sync = "cancel" /\ s \notin told
    /\ told' = told \cup {s}
    /\ paused' = [paused EXCEPT ![s] = TRUE]
    /\ cancel_event' = [l \in Loops |-> cancel_event[l] \/ (pc[l] = "wait" /\ at[l] = s)]
    /\ UNCHANGED <<agent, param_version, sync, submission, cancellation_event, taskVars, pc, at,
                   req_output, generating, reply, out>>

CancelWorker(w) ==
    /\ sync = "cancel" /\ w \notin told
    /\ told' = told \cup {w}
    /\ cancellation_event' = [cancellation_event EXCEPT ![w] = TRUE]
    /\ UNCHANGED <<agent, param_version, sync, submission, paused, taskVars, pc, at, serverVars,
                   reply, out>>

(* pause waits for the calls, then for the active tasks.                   *)
PauseEnd ==
    /\ sync = "cancel" /\ told = Servers \cup Workers
    /\ \A s \in Samples : task[s] # "active"
    /\ sync' = "synchronise"
    /\ UNCHANGED <<agent, param_version, submission, told, flagVars, taskVars, pc, at,
                   serverVars, reply, out>>

(* The monitor had decided to go on before pause switched it off; it was   *)
(* waiting for the lock.                                                   *)
MonitorRecovers ==
    /\ sync = "synchronise" /\ ~submission /\ param_version + Cardinality(Open) <= MaxRacing
    /\ submission' = TRUE
    /\ UNCHANGED <<agent, param_version, sync, told, flagVars, taskVars, pc, at,
                   serverVars, reply, out>>

UpdateParamVersion ==
    /\ sync = "synchronise"
    /\ param_version' = param_version + 1
    /\ sync' = "updated"
    /\ UNCHANGED <<agent, submission, told, flagVars, taskVars, pc, at, serverVars, reply, out>>

ResumeBegin ==
    /\ sync = "updated"
    /\ sync' = "resume" /\ told' = {}
    /\ UNCHANGED <<agent, param_version, submission, flagVars, taskVars, pc, at, serverVars,
                   reply, out>>

ResumeServer(s) ==
    /\ sync = "resume" /\ s \notin told
    /\ told' = told \cup {s}
    /\ paused' = [paused EXCEPT ![s] = FALSE]
    /\ UNCHANGED <<agent, param_version, sync, submission, cancellation_event, taskVars, pc, at,
                   serverVars, reply, out>>

(* Mutant of Clear: the event stays set.                                   *)
ClearNot(w) == cancellation_event
Clear(w)    == [cancellation_event EXCEPT ![w] = FALSE]

ResumeWorker(w) ==
    /\ sync = "resume" /\ w \notin told
    /\ told' = told \cup {w}
    /\ cancellation_event' = Clear(w)
    /\ UNCHANGED <<agent, param_version, sync, submission, paused, taskVars, pc, at, serverVars,
                   reply, out>>

ResumeEnd ==
    /\ sync = "resume" /\ told = Servers \cup Workers
    /\ sync' = "run" /\ submission' = TRUE
    /\ UNCHANGED <<agent, param_version, told, flagVars, taskVars, pc, at, serverVars, reply, out>>

-----------------------------------------------------------------------------
(* A server and its engine                                                 *)

(* The loop sends its request to a server the load balancer picks.         *)
Choose(l) == \E s \in Servers : at' = [at EXCEPT ![l] = s] /\ Goto(l, "call")

Return(l, tokens, is_cancel) ==
    /\ reply' = [reply EXCEPT ![l] = [tokens |-> tokens, is_cancel |-> is_cancel]]
    /\ at' = [at EXCEPT ![l] = None]
    /\ Goto(l, "reply")

Refuse(l) ==
    /\ pc[l] = "call" /\ paused[at[l]]
    /\ Return(l, <<>>, TRUE)
    /\ UNCHANGED <<agent, syncVars, flagVars, taskVars, serverVars, out>>

Accept(l) ==
    /\ pc[l] = "call" /\ ~paused[at[l]]
    /\ Goto(l, "wait")
    /\ cancel_event' = [cancel_event EXCEPT ![l] = FALSE]
    /\ req_output' = [req_output EXCEPT ![l] = None]
    /\ generating' = generating \cup {l}
    /\ UNCHANGED <<agent, syncVars, flagVars, taskVars, at, reply, out>>

Tokens(output) == IF output = None THEN <<>> ELSE output

(* The engine adds a token; the grammar is that of one turn, and the       *)
(* model's length stops it.                                                *)
Token(l) ==
    /\ l \in generating
    /\ LET before == out[l].text \o Tokens(req_output[l])
           kinds  == IF before # <<>> /\ Last(before)[1] = "open" THEN {"close"}
                     ELSE {"text", "eos"} \cup (IF agent = "tool" THEN {"open"} ELSE {})
       IN  \E k \in kinds :
              LET tokens == Append(Tokens(req_output[l]), <<k, param_version>>)
                  full   == 1 + Len(before) + 1 >= MaxModelLen
              IN  /\ req_output' = [req_output EXCEPT ![l] = tokens]
                  /\ generating' = IF k \in {"close", "eos"} \/ full
                                     THEN generating \ {l} ELSE generating
    /\ UNCHANGED <<agent, syncVars, flagVars, taskVars, pc, at, cancel_event, reply, out>>

(* The wait ends with the generation or with the event; what is generated  *)
(* so far is returned and the generation is cancelled: whatever its engine *)
(* still makes of it is not collected.                                     *)
(* Mutant of Stop: the generation goes on.                                 *)
StopNot(l) == UNCHANGED generating
Stop(l)    == generating' = generating \ {l}

(* Mutant of WasCancelled: the event decides, also when both are ready.    *)
CancelSeen(l)   == cancel_event[l]
WasCancelled(l) == req_output[l] = None \/ l \in generating

FinishCall(l) ==
    /\ pc[l] = "wait"
    /\ l \notin generating \/ cancel_event[l]
    /\ Return(l, Tokens(req_output[l]), WasCancelled(l))
    /\ Stop(l)
    /\ req_output' = [req_output EXCEPT ![l] = None]
    /\ cancel_event' = [cancel_event EXCEPT ![l] = FALSE]
    /\ UNCHANGED <<agent, syncVars, flagVars, taskVars, out>>

-----------------------------------------------------------------------------
(* The single turn loop                                                    *)

BeginSingle(l) ==
    /\ agent = "single_turn" /\ pc[l] = "begin"
    /\ Choose(l)
    /\ out' = [out EXCEPT ![l].since = IF out[l].status = "new" THEN sample_version[l[1]] ELSE @]
    /\ UNCHANGED <<agent, syncVars, flagVars, taskVars, serverVars, reply>>

(* An interrupted response goes on where it stopped.                       *)
(* Mutant of Resumed: it starts over.                                      *)
StartedOver(l) == reply[l].tokens
Resumed(l)     == out[l].text \o reply[l].tokens

EndSingle(l) ==
    /\ agent = "single_turn" /\ pc[l] = "reply"
    /\ out' = [out EXCEPT
          ![l].text = Clip(Resumed(l)),
          ![l].mask = Clip(Ones(Resumed(l))),
          ![l].until = sample_version[l[1]],
          ![l].status = IF reply[l].is_cancel /\ Len(Resumed(l)) < ResponseLength
                          THEN "cancelled" ELSE "completed"]
    /\ reply' = [reply EXCEPT ![l] = NoReply]
    /\ Goto(l, "returned")
    /\ UNCHANGED <<agent, syncVars, flagVars, taskVars, at, serverVars>>

-----------------------------------------------------------------------------
(* The tool loop                                                           *)

BeginTool(l) ==
    /\ agent = "tool" /\ pc[l] = "begin"
    /\ out' = [out EXCEPT ![l].since = IF out[l].status = "new" THEN sample_version[l[1]] ELSE @]
    /\ Goto(l, "turn")
    /\ UNCHANGED <<agent, syncVars, flagVars, taskVars, at, serverVars, reply>>

(* Between two states the loop looks at the worker's event.                *)
(* Mutant of Interrupted: it does not look.                                *)
InterruptedNever(l) == FALSE
Interrupted(l)      == cancellation_event[worker[l[1]]]

CancelledOutput(l) ==
    /\ pc[l] = "turn" /\ out[l].state # "TERMINATED" /\ Interrupted(l)
    /\ out' = [out EXCEPT ![l].status = "cancelled"]
    /\ Goto(l, "returned")
    /\ UNCHANGED <<agent, syncVars, flagVars, taskVars, at, serverVars, reply>>

Pending(l) ==
    /\ pc[l] = "turn" /\ out[l].state = "PENDING" /\ ~Interrupted(l)
    /\ out' = [out EXCEPT ![l].state = "GENERATING"]
    /\ UNCHANGED <<agent, syncVars, flagVars, taskVars, pc, at, serverVars, reply>>

Generate(l) ==
    /\ pc[l] = "turn" /\ out[l].state = "GENERATING" /\ ~Interrupted(l)
    /\ Choose(l)
    /\ UNCHANGED <<agent, syncVars, flagVars, taskVars, serverVars, reply, out>>

(* A tool call is looked for in the tokens of this reply only.             *)
HasCall(tokens) == \E i \in 1..Len(tokens) - 1 : tokens[i][1] = "open" /\ tokens[i + 1][1] = "close"

NextState(l, mask) ==
    CASE Len(mask) >= ResponseLength -> "TERMINATED"
      [] Len(mask) < ResponseLength /\ reply[l].is_cancel -> "GENERATING"
      [] Len(mask) < ResponseLength /\ ~reply[l].is_cancel ->
            IF HasCall(reply[l].tokens) THEN "PROCESSING_TOOLS" ELSE "TERMINATED"

(* Mutant of Masked: the mask of an interrupted reply is left out.         *)
MaskedLate(l) == IF reply[l].is_cancel THEN out[l].mask ELSE out[l].mask \o Ones(reply[l].tokens)
Masked(l)     == out[l].mask \o Ones(reply[l].tokens)

EndGenerate(l) ==
    /\ agent = "tool" /\ pc[l] = "reply"
    /\ LET mask == Masked(l)
       IN  out' = [out EXCEPT ![l].text = @ \o reply[l].tokens,
                              ![l].mask = mask,
                              ![l].state = NextState(l, mask)]
    /\ reply' = [reply EXCEPT ![l] = NoReply]
    /\ Goto(l, "turn")
    /\ UNCHANGED <<agent, syncVars, flagVars, taskVars, at, serverVars>>

CallTools(l) ==
    /\ pc[l] = "turn" /\ out[l].state = "PROCESSING_TOOLS" /\ ~Interrupted(l)
    /\ out' = [out EXCEPT ![l].ran = @ + 1]
    /\ Goto(l, "tools")
    /\ UNCHANGED <<agent, syncVars, flagVars, taskVars, at, serverVars, reply>>

(* The answer of the tools is appended unless the response would be full.  *)
(* Mutant of AfterTools: an interrupted loop keeps the state before.       *)
StateBefore(l) == IF Interrupted(l) THEN "PROCESSING_TOOLS" ELSE "GENERATING"
AfterTools(l)  == "GENERATING"
ToolTokens     == [i \in 1..ToolLength |-> <<"tool", 0>>]
EndTools(l) ==
    /\ pc[l] = "tools"
    /\ out' = IF Len(out[l].mask) + ToolLength >= ResponseLength
                THEN [out EXCEPT ![l].state = "TERMINATED"]
                ELSE [out EXCEPT ![l].state = AfterTools(l),
                                 ![l].text = @ \o ToolTokens,
                                 ![l].mask = @ \o [i \in 1..ToolLength |-> 0]]
    /\ Goto(l, "turn")
    /\ UNCHANGED <<agent, syncVars, flagVars, taskVars, at, serverVars, reply>>

(* The response is cut out of prompt_ids by the length of the mask.        *)
CompletedOutput(l) ==
    /\ pc[l] = "turn" /\ out[l].state = "TERMINATED"
    /\ out' = [out EXCEPT
          ![l].text = Clip(SubSeq(@, Len(@) - Len(out[l].mask) + 1, Len(@))),
          ![l].mask = Clip(@),
          ![l].until = sample_version[l[1]],
          ![l].status = "completed"]
    /\ Goto(l, "returned")
    /\ UNCHANGED <<agent, syncVars, flagVars, taskVars, at, serverVars, reply>>

-----------------------------------------------------------------------------
LoopNext(l) ==
    \/ BeginSingle(l) \/ EndSingle(l)
    \/ BeginTool(l) \/ CancelledOutput(l) \/ Pending(l) \/ Generate(l)
    \/ EndGenerate(l) \/ CallTools(l) \/ EndTools(l) \/ CompletedOutput(l)

ServerNext(l) == Refuse(l) \/ Accept(l) \/ Token(l) \/ FinishCall(l)

ManagerNext ==
    \/ \E s \in Servers : CancelServer(s) \/ ResumeServer(s)
    \/ \E w \in Workers : CancelWorker(w) \/ ResumeWorker(w)
    \/ PauseEnd \/ UpdateParamVersion \/ ResumeBegin \/ ResumeEnd

Finished ==
    /\ sync = "run" /\ \A s \in Samples : task[s] = "done"
    /\ UNCHANGED vars

Next ==
    \/ PauseBegin \/ MonitorRecovers \/ ManagerNext
    \/ \E s \in Samples : Submit(s) \/ Gather(s)
    \/ \E l \in Loops : LoopNext(l) \/ ServerNext(l)
    \/ Finished

Spec == Init /\ [][Next]_vars

(* Coroutines, servers and engines go on; a pause comes when it comes.  Of *)
(* each pair only one can be enabled.                                      *)
Fairness ==
    /\ WF_vars(ManagerNext)
    /\ \A s \in Samples : WF_vars(Submit(s) \/ Gather(s))
    /\ \A l \in Loops : WF_vars(LoopNext(l) \/ ServerNext(l))

FairSpec == Spec /\ Fairness

-----------------------------------------------------------------------------
(* From the end of a pause to the resume nothing is generated and no loop  *)
(* waits for a server, although the servers and the workers hear of the    *)
(* pause one by one and the monitor may let new loops start meanwhile.     *)
SyncQuiet == sync \in {"synchronise", "updated"} =>
    generating = {} /\ \A l \in Loops : pc[l] # "wait"

(* Every token of a complete response was generated with a version of the  *)
(* weights that is not before the first one the response is labelled with, *)
(* and at most one after the last: a sample that the monitor let start     *)
(* between pause and update has the old label and, after the resume, new   *)
(* tokens.                                                                 *)
VersionsBracket == \A l \in Loops : out[l].status = "completed" =>
    \A i \in 1..Len(out[l].text) :
        out[l].text[i][1] = "tool" \/ out[l].text[i][2] \in out[l].since..out[l].until + 1

(* The mask of a response, interrupted or complete, has an entry for each  *)
(* token, and masks exactly the tokens the model did not generate.         *)
MaskMatches == \A l \in Loops :
    /\ Len(out[l].mask) = Len(out[l].text)
    /\ \A i \in 1..Len(out[l].mask) : (out[l].mask[i] = 0) = (out[l].text[i][1] = "tool")

(* A turn that came to its end is not continued, however the pause and the *)
(* last token race: nothing follows an end of text, and only the answer of *)
(* the tools follows a call.                                               *)
EndsStay == \A l \in Loops : \A i \in 1..Len(out[l].text) - 1 :
    /\ out[l].text[i][1] # "eos"
    /\ out[l].text[i][1] = "close" => out[l].text[i + 1][1] = "tool"

Calls(text) == Cardinality({i \in 1..Len(text) : text[i][1] = "close"})

(* No interruption makes a tool call run twice.                            *)
CallsRunOnce == \A l \in Loops : out[l].ran <= Calls(out[l].text)

(* Tokens of a response are only appended, and a complete response stays.  *)
ResponsesKept == INSTANCE Responses WITH
    Writers  <- Loops,
    text     <- [l \in Loops |-> Clip(out[l].text)],
    complete <- {l \in Loops : out[l].status = "completed"}
KeepsResponses == ResponsesKept!Spec

(* A pause ends: every loop notices it, in whatever state it is.           *)
PauseDrains == sync = "cancel" ~> sync = "synchronise"

(* Every sample is completed, through all the interruptions.               *)
Completes == <>(\A s \in Samples : task[s] = "done")

(* A complete response with room left has had all its tool calls answered. *)
CallsAnswered == \A l \in Loops :
    out[l].status = "completed" /\ Len(out[l].text) < ResponseLength
        => Calls(out[l].text) = out[l].ran
=============================================================================
