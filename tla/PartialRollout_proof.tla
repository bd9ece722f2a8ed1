------------------------ MODULE PartialRollout_proof ------------------------
(***************************************************************************)
(* Proofs about interrupted generation, for every number of servers,       *)
(* workers, samples and responses, and every length.                       *)
(***************************************************************************)
EXTENDS PartialRollout, FiniteSetTheorems, SequenceTheorems, TLAPS

PCs    == {"idle", "begin", "call", "wait", "reply", "turn", "tools", "returned"}
Toks   == Kinds \X Nat
States == {"PENDING", "GENERATING", "PROCESSING_TOOLS", "TERMINATED"}
Outs   == [text : Seq(Toks), mask : Seq({0, 1}), state : States, ran : Nat,
           since : Nat, until : Nat, status : {"new", "cancelled", "completed"}]

TypeInv ==
    /\ agent \in {"single_turn", "tool"}
    /\ param_version \in Nat
    /\ sync \in {"run", "cancel", "synchronise", "updated", "resume"}
    /\ task \in [Samples -> {"waiting", "active", "cancelled", "done"}]
    /\ sample_version \in [Samples -> Nat]
    /\ pc \in [Loops -> PCs]
    /\ req_output \in [Loops -> Seq(Toks) \cup {None}]
    /\ reply \in [Loops -> [tokens : Seq(Toks), is_cancel : BOOLEAN]]
    /\ out \in [Loops -> Outs]

(* Engines work for requests that are waited for, and loops run for        *)
(* samples the rollouter counts as active.                                 *)
QuietInv ==
    /\ \A l \in generating : pc[l] = "wait" /\ l \in Loops
    /\ \A l \in Loops : pc[l] # "idle" => task[l[1]] = "active"

(* Between pause and resume the servers refuse what is sent to them, so    *)
(* loops that the monitor lets start have no tokens yet.                   *)
Between == sync \in {"synchronise", "updated"}
RefuseInv ==
    /\ paused \in [Servers -> BOOLEAN]
    /\ at \in [Loops -> Servers \cup {None}]
    /\ \A l \in Loops : pc[l] = "call" => at[l] \in Servers
    /\ sync = "cancel" => \A s \in Servers : s \in told => paused[s]
    /\ Between => /\ \A s \in Servers : paused[s]
                  /\ \A l \in Loops :
                        pc[l] # "wait" /\ (pc[l] = "reply" => reply[l].tokens = <<>>)

(* Tokens                                                                  *)
Stamped(seq, a, b) == \A i \in 1..Len(seq) : seq[i][1] = "tool" \/ seq[i][2] \in a..b
Generated(seq)     == \A i \in 1..Len(seq) : seq[i][1] # "tool"
Matches(mask, text) ==
    /\ Len(mask) = Len(text)
    /\ \A i \in 1..Len(mask) : (mask[i] = 0) <=> (text[i][1] = "tool")

(* Which loops may have which output.                                      *)
StatusOf(l) ==
    /\ out[l].status = "completed" => pc[l] \in {"idle", "returned"}
    /\ pc[l] = "returned" => out[l].status # "new"
    /\ out[l].status = "new" /\ pc[l] \in {"idle", "begin"} => out[l].text = <<>>
    /\ agent = "single_turn" => pc[l] \notin {"turn", "tools"} /\ Generated(out[l].text)
StatusInv == \A l \in Loops : StatusOf(l)

(* What is generated is of the present version; the label of a sample      *)
(* under way is at most one version behind, and only once the update has   *)
(* overtaken it.                                                           *)
LabelInv == \A s \in Samples :
    /\ sample_version[s] <= param_version
    /\ task[s] = "active" => param_version <= sample_version[s] + 1
    /\ task[s] = "active" /\ sync = "synchronise" => sample_version[s] = param_version
RequestOf(l) ==
    /\ pc[l] = "wait" => /\ Stamped(Tokens(req_output[l]), param_version, param_version)
                         /\ Generated(Tokens(req_output[l]))
    /\ pc[l] = "reply" => /\ Stamped(reply[l].tokens, param_version, param_version)
                          /\ Generated(reply[l].tokens)
StampOf(l) ==
    /\ out[l].since <= param_version
    /\ out[l].status # "completed" => Stamped(out[l].text, out[l].since, param_version)
    /\ out[l].status = "completed" => Stamped(out[l].text, out[l].since, out[l].until + 1)
VersionInv == LabelInv /\ \A l \in Loops : RequestOf(l) /\ StampOf(l)

MaskInv == \A l \in Loops : Matches(out[l].mask, out[l].text)

(* The inductive invariant.                                                *)
Inv == TypeInv /\ QuietInv /\ RefuseInv /\ StatusInv /\ VersionInv /\ MaskInv

-----------------------------------------------------------------------------
(* Sequences of tokens                                                     *)

LEMMA StampedConcat ==
    ASSUME NEW s \in Seq(Toks), NEW t \in Seq(Toks), NEW a \in Nat, NEW b \in Nat,
           Stamped(s, a, b), Stamped(t, a, b)
    PROVE  Stamped(s \o t, a, b)
<1>1. /\ Len(s \o t) = Len(s) + Len(t)
      /\ \A i \in 1..Len(s) + Len(t) :
            (s \o t)[i] = IF i <= Len(s) THEN s[i] ELSE t[i - Len(s)]
  BY ConcatProperties
<1>2. Len(s) \in Nat /\ Len(t) \in Nat
  OBVIOUS
<1>3. SUFFICES ASSUME NEW i \in 1..Len(s) + Len(t)
               PROVE  (s \o t)[i][1] = "tool" \/ (s \o t)[i][2] \in a..b
  BY <1>1 DEF Stamped
<1>4. CASE i <= Len(s)
  <2>1. (s \o t)[i] = s[i] /\ i \in 1..Len(s)
    BY <1>1, <1>2, <1>4
  <2> QED BY <2>1 DEF Stamped
<1>5. CASE ~(i <= Len(s))
  <2>1. (s \o t)[i] = t[i - Len(s)] /\ i - Len(s) \in 1..Len(t)
    BY <1>1, <1>2, <1>5
  <2> QED BY <2>1 DEF Stamped
<1> QED BY <1>4, <1>5

LEMMA GeneratedConcat ==
    ASSUME NEW s \in Seq(Toks), NEW t \in Seq(Toks), Generated(s), Generated(t)
    PROVE  Generated(s \o t)
<1>1. /\ Len(s \o t) = Len(s) + Len(t)
      /\ \A i \in 1..Len(s) + Len(t) :
            (s \o t)[i] = IF i <= Len(s) THEN s[i] ELSE t[i - Len(s)]
  BY ConcatProperties
<1>2. Len(s) \in Nat /\ Len(t) \in Nat
  OBVIOUS
<1>3. SUFFICES ASSUME NEW i \in 1..Len(s) + Len(t)
               PROVE  (s \o t)[i][1] # "tool"
  BY <1>1 DEF Generated
<1>4. CASE i <= Len(s)
  <2>1. (s \o t)[i] = s[i] /\ i \in 1..Len(s)
    BY <1>1, <1>2, <1>4
  <2> QED BY <2>1 DEF Generated
<1>5. CASE ~(i <= Len(s))
  <2>1. (s \o t)[i] = t[i - Len(s)] /\ i - Len(s) \in 1..Len(t)
    BY <1>1, <1>2, <1>5
  <2> QED BY <2>1 DEF Generated
<1> QED BY <1>4, <1>5

LEMMA MatchesConcat ==
    ASSUME NEW m \in Seq({0, 1}), NEW s \in Seq(Toks), Matches(m, s),
           NEW n \in Seq({0, 1}), NEW t \in Seq(Toks), Matches(n, t)
    PROVE  Matches(m \o n, s \o t)
<1>1. /\ Len(s \o t) = Len(s) + Len(t)
      /\ \A i \in 1..Len(s) + Len(t) :
            (s \o t)[i] = IF i <= Len(s) THEN s[i] ELSE t[i - Len(s)]
  BY ConcatProperties
<1>2. /\ Len(m \o n) = Len(m) + Len(n)
      /\ \A i \in 1..Len(m) + Len(n) :
            (m \o n)[i] = IF i <= Len(m) THEN m[i] ELSE n[i - Len(m)]
  BY ConcatProperties
<1>3. Len(s) \in Nat /\ Len(t) \in Nat /\ Len(m) = Len(s) /\ Len(n) = Len(t)
  BY DEF Matches
<1>4. Len(m \o n) = Len(s \o t)
  BY <1>1, <1>2, <1>3
<1>5. ASSUME NEW i \in 1..Len(s) + Len(t)
      PROVE  ((m \o n)[i] = 0) <=> ((s \o t)[i][1] = "tool")
  <2>1. CASE i <= Len(s)
    <3>1. (s \o t)[i] = s[i] /\ (m \o n)[i] = m[i] /\ i \in 1..Len(m)
      BY <1>1, <1>2, <1>3, <2>1
    <3> QED BY <3>1 DEF Matches
  <2>2. CASE ~(i <= Len(s))
    <3>1. /\ (s \o t)[i] = t[i - Len(s)] /\ (m \o n)[i] = n[i - Len(s)]
          /\ i - Len(s) \in 1..Len(n)
      BY <1>1, <1>2, <1>3, <2>2
    <3> QED BY <3>1 DEF Matches
  <2> QED BY <2>1, <2>2
<1> QED BY <1>1, <1>3, <1>4, <1>5 DEF Matches

(* A prefix of a sequence.                                                 *)
LEMMA ClipPrefix ==
    ASSUME NEW S, NEW s \in Seq(S)
    PROVE  /\ Clip(s) \in Seq(S)
           /\ Len(Clip(s)) = IF Len(s) < ResponseLength THEN Len(s) ELSE ResponseLength
           /\ \A i \in 1..Len(Clip(s)) : i \in 1..Len(s) /\ Clip(s)[i] = s[i]
<1> DEFINE n == IF Len(s) < ResponseLength THEN Len(s) ELSE ResponseLength
<1>1. Len(s) \in Nat /\ n \in Nat /\ n <= Len(s)
  BY PartialAssumption
<1>2. Clip(s) = SubSeq(s, 1, n)
  BY DEF Clip
<1> HIDE DEF n
<1>3. \A i \in 1..n : s[i] \in S /\ i \in 1..Len(s)
  BY <1>1
<1>4. SubSeq(s, 1, n) = [i \in 1..n |-> s[1 + i - 1]]
  BY <1>1, SubSeqProperties
<1>5. SubSeq(s, 1, n) = [i \in 1..n |-> s[i]]
  BY <1>1, <1>4
<1>6. SubSeq(s, 1, n) \in Seq(S) /\ Len(SubSeq(s, 1, n)) = n
  BY <1>1, <1>3, <1>5
<1> QED BY <1>2, <1>3, <1>5, <1>6 DEF n

LEMMA StampedClip ==
    ASSUME NEW s \in Seq(Toks), NEW a, NEW b, Stamped(s, a, b)
    PROVE  Stamped(Clip(s), a, b)
BY ClipPrefix DEF Stamped

LEMMA GeneratedClip ==
    ASSUME NEW s \in Seq(Toks), Generated(s)
    PROVE  Generated(Clip(s))
BY ClipPrefix DEF Generated

LEMMA MatchesClip ==
    ASSUME NEW m \in Seq({0, 1}), NEW s \in Seq(Toks), Matches(m, s)
    PROVE  Matches(Clip(m), Clip(s))
<1>1. Len(m) = Len(s)
  BY DEF Matches
<1>2. /\ Len(Clip(m)) = Len(Clip(s))
      /\ \A i \in 1..Len(Clip(m)) : i \in 1..Len(m) /\ Clip(m)[i] = m[i]
      /\ \A i \in 1..Len(Clip(s)) : i \in 1..Len(s) /\ Clip(s)[i] = s[i]
  BY <1>1, ClipPrefix
<1> QED BY <1>2 DEF Matches

LEMMA StampedWider ==
    ASSUME NEW s \in Seq(Toks), NEW a \in Nat, NEW b \in Nat, NEW c \in Nat, NEW d \in Nat,
           Stamped(s, a, b), c <= a, b <= d
    PROVE  Stamped(s, c, d)
BY DEF Stamped

LEMMA EmptyTokens ==
    ASSUME NEW a, NEW b
    PROVE  /\ <<>> \in Seq(Toks) /\ <<>> \in Seq({0, 1})
           /\ Stamped(<<>>, a, b) /\ Generated(<<>>) /\ Matches(<<>>, <<>>)
BY DEF Stamped, Generated, Matches

LEMMA OnesMatch ==
    ASSUME NEW s \in Seq(Toks), Generated(s)
    PROVE  Ones(s) \in Seq({0, 1}) /\ Matches(Ones(s), s)
<1>1. Len(s) \in Nat
  OBVIOUS
<1>2. Ones(s) = [i \in 1..Len(s) |-> 1]
  BY DEF Ones
<1>3. Ones(s) \in Seq({0, 1}) /\ Len(Ones(s)) = Len(s)
  BY <1>1, <1>2
<1> QED BY <1>2, <1>3 DEF Matches, Generated

(* What the tools answer is masked, and of no version.                     *)
LEMMA ToolAnswer ==
    ASSUME NEW a, NEW b
    PROVE  /\ ToolTokens \in Seq(Toks) /\ [i \in 1..ToolLength |-> 0] \in Seq({0, 1})
           /\ Stamped(ToolTokens, a, b)
           /\ Matches([i \in 1..ToolLength |-> 0], ToolTokens)
<1>1. ToolLength \in Nat
  BY PartialAssumption
<1>2. ToolTokens = [i \in 1..ToolLength |-> <<"tool", 0>>] /\ <<"tool", 0>> \in Toks
  BY DEF ToolTokens, Toks, Kinds
<1>3. ToolTokens \in Seq(Toks) /\ Len(ToolTokens) = ToolLength
  BY <1>1, <1>2
<1> DEFINE Zeros == [i \in 1..ToolLength |-> 0]
<1>4. Zeros \in Seq({0, 1}) /\ Len(Zeros) = ToolLength
  BY <1>1
<1>5. \A i \in 1..ToolLength : Zeros[i] = 0 /\ ToolTokens[i][1] = "tool"
  BY <1>2
<1> HIDE DEF Zeros
<1>6. Stamped(ToolTokens, a, b) /\ Matches(Zeros, ToolTokens)
  BY <1>3, <1>4, <1>5 DEF Stamped, Matches
<1> QED BY <1>3, <1>4, <1>6 DEF Zeros

(* A token the engine adds at version v.                                   *)
LEMMA TokenAdded ==
    ASSUME NEW s \in Seq(Toks), NEW v \in Nat, Stamped(s, v, v), Generated(s),
           NEW k \in {"text", "open", "close", "eos"}
    PROVE  /\ Append(s, <<k, v>>) \in Seq(Toks)
           /\ Stamped(Append(s, <<k, v>>), v, v) /\ Generated(Append(s, <<k, v>>))
<1> DEFINE t == <<k, v>>
<1>1. t \in Toks /\ t[1] # "tool" /\ t[2] \in v..v
  BY DEF Toks, Kinds
<1> HIDE DEF t
<1>2. /\ Append(s, t) \in Seq(Toks) /\ Len(Append(s, t)) = Len(s) + 1
      /\ \A i \in 1..Len(s) : Append(s, t)[i] = s[i]
      /\ Append(s, t)[Len(s) + 1] = t
  BY <1>1, AppendProperties
<1>3. Len(s) \in Nat
  OBVIOUS
<1>4. \A i \in 1..Len(s) + 1 : i \in 1..Len(s) \/ i = Len(s) + 1
  BY <1>3
<1>5. Stamped(Append(s, t), v, v) /\ Generated(Append(s, t))
  BY <1>1, <1>2, <1>4 DEF Stamped, Generated
<1> QED BY <1>2, <1>5 DEF t

LEMMA TokensType ==
    ASSUME NEW o \in Seq(Toks) \cup {None}
    PROVE  Tokens(o) \in Seq(Toks)
BY DEF Tokens

-----------------------------------------------------------------------------
(* Type correctness                                                        *)

LEMMA StateType ==
    ASSUME NEW l \in Loops, NEW mask \in Seq({0, 1})
    PROVE  NextState(l, mask) \in States
<1>1. Len(mask) \in Nat
  OBVIOUS
<1>2. CASE Len(mask) >= ResponseLength
  BY <1>2, PartialAssumption DEF NextState, States
<1>3. CASE ~(Len(mask) >= ResponseLength)
  <2>1. Len(mask) < ResponseLength
    BY <1>1, <1>3, PartialAssumption
  <2>2. CASE reply[l].is_cancel
    BY <1>3, <2>1, <2>2 DEF NextState, States
  <2>3. CASE ~reply[l].is_cancel
    <3>1. NextState(l, mask) = IF HasCall(reply[l].tokens) THEN "PROCESSING_TOOLS" ELSE "TERMINATED"
      BY <1>3, <2>1, <2>3 DEF NextState
    <3> QED BY <3>1 DEF States
  <2> QED BY <2>2, <2>3
<1> QED BY <1>2, <1>3

LEMMA OnesType ==
    ASSUME NEW s \in Seq(Toks)
    PROVE  Ones(s) \in Seq({0, 1}) /\ Len(Ones(s)) = Len(s)
<1>1. Len(s) \in Nat /\ Ones(s) = [i \in 1..Len(s) |-> 1]
  BY DEF Ones
<1> QED BY <1>1

LEMMA TypeInit == Init => TypeInv
BY EmptyTokens DEF Init, TypeInv, PCs, States, Outs, Fresh, NoReply

(* What a step of a loop leaves alone.                                     *)
LEMMA LoopMoves ==
    ASSUME TypeInv, NEW l \in Loops, LoopNext(l)
    PROVE  /\ UNCHANGED <<agent, param_version, sync, told, paused, task, sample_version,
                           req_output, generating>>
           /\ \/ at' = at /\ pc'[l] # "call"
              \/ \E s \in Servers : at' = [at EXCEPT ![l] = s]
           /\ pc[l] \in {"begin", "reply", "turn", "tools"}
           /\ \E x \in {"call", "turn", "tools", "returned"} : pc' = [pc EXCEPT ![l] = x]
           /\ reply' = reply \/ reply' = [reply EXCEPT ![l] = NoReply]
           /\ \A m \in Loops \ {l} : out'[m] = out[m]
<1> USE DEF TypeInv, syncVars, flagVars, taskVars, serverVars, Goto
<1>1. CASE BeginSingle(l)
  BY <1>1 DEF BeginSingle, Choose
<1>2. CASE EndSingle(l)
  BY <1>2 DEF EndSingle
<1>3. CASE BeginTool(l)
  BY <1>3 DEF BeginTool
<1>4. CASE CancelledOutput(l)
  BY <1>4 DEF CancelledOutput
<1>5. CASE Pending(l)
  BY <1>5 DEF Pending
<1>6. CASE Generate(l)
  BY <1>6 DEF Generate, Choose
<1>7. CASE EndGenerate(l)
  BY <1>7 DEF EndGenerate
<1>8. CASE CallTools(l)
  BY <1>8 DEF CallTools
<1>9. CASE EndTools(l)
  BY <1>9 DEF EndTools
<1>10. CASE CompletedOutput(l)
  BY <1>10 DEF CompletedOutput
<1> QED BY <1>1, <1>2, <1>3, <1>4, <1>5, <1>6, <1>7, <1>8, <1>9, <1>10 DEF LoopNext

(* The response cut out of prompt_ids is the whole one.                    *)
LEMMA WholeText ==
    ASSUME TypeInv, MaskInv, NEW l \in Loops
    PROVE  SubSeq(out[l].text, Len(out[l].text) - Len(out[l].mask) + 1, Len(out[l].text))
              = out[l].text
<1>1. out[l].text \in Seq(Toks) /\ Len(out[l].mask) = Len(out[l].text)
  BY DEF TypeInv, Outs, MaskInv, Matches
<1>2. Len(out[l].text) - Len(out[l].mask) + 1 = 1
  BY <1>1
<1> QED BY <1>1, <1>2, SubSeqFull

LEMMA TypeStep == TypeInv /\ MaskInv /\ [Next]_vars => TypeInv'
<1> SUFFICES ASSUME TypeInv, MaskInv, [Next]_vars PROVE TypeInv'
  OBVIOUS
<1>0. CASE UNCHANGED vars
  BY <1>0 DEF vars, syncVars, flagVars, taskVars, serverVars, TypeInv
<1>1. CASE PauseBegin \/ MonitorRecovers \/ PauseEnd \/ UpdateParamVersion
           \/ ResumeBegin \/ ResumeEnd \/ Finished
  <2>1. /\ UNCHANGED <<agent, task, sample_version, pc, req_output, reply, out>>
        /\ param_version' \in Nat /\ sync' \in {"run", "cancel", "synchronise", "updated", "resume"}
    BY <1>1 DEF TypeInv, PauseBegin, MonitorRecovers, PauseEnd, UpdateParamVersion,
                ResumeBegin, ResumeEnd, Finished,
                vars, syncVars, flagVars, taskVars, serverVars
  <2> QED BY <2>1 DEF TypeInv
<1>2. ASSUME NEW s \in Servers, CancelServer(s) \/ ResumeServer(s) PROVE TypeInv'
  <2>1. UNCHANGED <<agent, param_version, sync, task, sample_version, pc, req_output, reply, out>>
    BY <1>2 DEF CancelServer, ResumeServer, taskVars, serverVars
  <2> QED BY <2>1 DEF TypeInv
<1>3. ASSUME NEW w \in Workers, CancelWorker(w) \/ ResumeWorker(w) PROVE TypeInv'
  <2>1. UNCHANGED <<agent, param_version, sync, task, sample_version, pc, req_output, reply, out>>
    BY <1>3 DEF CancelWorker, ResumeWorker, taskVars, serverVars
  <2> QED BY <2>1 DEF TypeInv
<1>4. ASSUME NEW s \in Samples, Submit(s) PROVE TypeInv'
  <2>1. UNCHANGED <<agent, param_version, sync, req_output, reply, out>>
    BY <1>4 DEF Submit, syncVars, serverVars
  <2>2. task' \in [Samples -> {"waiting", "active", "cancelled", "done"}]
    BY <1>4 DEF Submit, TypeInv
  <2>3. sample_version' \in [Samples -> Nat]
    BY <1>4 DEF Submit, TypeInv, Version
  <2>4. pc' \in [Loops -> PCs]
    BY <1>4 DEF Submit, Start, TypeInv, PCs
  <2> QED BY <2>1, <2>2, <2>3, <2>4 DEF TypeInv
<1>5. ASSUME NEW s \in Samples, Gather(s) PROVE TypeInv'
  <2>1. UNCHANGED <<agent, param_version, sync, sample_version, req_output, reply, out>>
    BY <1>5 DEF Gather, syncVars, serverVars
  <2>2. task' \in [Samples -> {"waiting", "active", "cancelled", "done"}]
    BY <1>5 DEF Gather, TypeInv
  <2>3. pc' \in [Loops -> PCs]
    BY <1>5 DEF Gather, TypeInv, PCs
  <2> QED BY <2>1, <2>2, <2>3 DEF TypeInv
<1>6. ASSUME NEW l \in Loops, ServerNext(l) PROVE TypeInv'
  <2>1. CASE Refuse(l) \/ FinishCall(l)
    <3>1. Tokens(req_output[l]) \in Seq(Toks) /\ WasCancelled(l) \in BOOLEAN
      BY TokensType DEF TypeInv, WasCancelled
    <3>2. PICK t \in Seq(Toks), c \in BOOLEAN :
             reply' = [reply EXCEPT ![l] = [tokens |-> t, is_cancel |-> c]]
      <4>1. CASE Refuse(l)
        BY <4>1, EmptyTokens DEF Refuse, Return
      <4>2. CASE FinishCall(l)
        BY <3>1, <4>2 DEF FinishCall, Return
      <4> QED BY <2>1, <4>1, <4>2
    <3>6. reply' \in [Loops -> [tokens : Seq(Toks), is_cancel : BOOLEAN]]
      BY <3>2 DEF TypeInv
    <3>3. pc' \in [Loops -> PCs]
      BY <2>1 DEF Refuse, FinishCall, Return, Goto, TypeInv, PCs
    <3>4. req_output' \in [Loops -> Seq(Toks) \cup {None}]
      BY <2>1 DEF Refuse, FinishCall, TypeInv, serverVars
    <3>5. UNCHANGED <<agent, param_version, sync, task, sample_version, out>>
      BY <2>1 DEF Refuse, FinishCall, syncVars, taskVars
    <3> QED BY <3>3, <3>4, <3>5, <3>6 DEF TypeInv
  <2>2. CASE Accept(l)
    <3>1. UNCHANGED <<agent, param_version, sync, task, sample_version, reply, out>>
      BY <2>2 DEF Accept, syncVars, taskVars
    <3>2. pc' \in [Loops -> PCs] /\ req_output' \in [Loops -> Seq(Toks) \cup {None}]
      BY <2>2 DEF Accept, Goto, TypeInv, PCs
    <3> QED BY <3>1, <3>2 DEF TypeInv
  <2>3. CASE Token(l)
    <3>1. UNCHANGED <<agent, param_version, sync, task, sample_version, pc, reply, out>>
      BY <2>3 DEF Token, syncVars, taskVars
    <3>2. PICK k \in {"text", "open", "close", "eos"} : req_output' =
             [req_output EXCEPT ![l] = Append(Tokens(req_output[l]), <<k, param_version>>)]
      BY <2>3 DEF Token
    <3>3. Tokens(req_output[l]) \in Seq(Toks) /\ <<k, param_version>> \in Toks
      BY TokensType DEF TypeInv, Toks, Kinds
    <3>4. Append(Tokens(req_output[l]), <<k, param_version>>) \in Seq(Toks)
      BY <3>3, AppendProperties
    <3>5. req_output' \in [Loops -> Seq(Toks) \cup {None}]
      BY <3>2, <3>4 DEF TypeInv
    <3> QED BY <3>1, <3>5 DEF TypeInv
  <2> QED BY <1>6, <2>1, <2>2, <2>3 DEF ServerNext
<1>7. ASSUME NEW l \in Loops, LoopNext(l) PROVE TypeInv'
  <2> DEFINE o == out[l]
             r == reply[l].tokens
  <2>0. /\ o \in Outs /\ o.text \in Seq(Toks) /\ o.mask \in Seq({0, 1}) /\ o.ran \in Nat
        /\ o.state \in States /\ o.since \in Nat
        /\ r \in Seq(Toks) /\ sample_version[l[1]] \in Nat
    BY DEF TypeInv, Outs, Loops
  <2>a. UNCHANGED <<agent, param_version, sync, task, sample_version, req_output>>
    BY <1>7, LoopMoves
  <2>b. pc' \in [Loops -> PCs]
    BY <1>7, LoopMoves DEF TypeInv, PCs
  <2>c. reply' \in [Loops -> [tokens : Seq(Toks), is_cancel : BOOLEAN]]
    <3>1. NoReply \in [tokens : Seq(Toks), is_cancel : BOOLEAN]
      BY EmptyTokens DEF NoReply
    <3> QED BY <1>7, <3>1, LoopMoves DEF TypeInv
  <2>d. out' \in [Loops -> Outs]
    <3>1. CASE BeginSingle(l) \/ BeginTool(l)
      <4>1. PICK n \in Nat : out' = [out EXCEPT ![l].since = n]
        BY <2>0, <3>1 DEF BeginSingle, BeginTool
      <4> QED BY <2>0, <4>1 DEF TypeInv, Outs
    <3>6. CASE CancelledOutput(l)
      BY <2>0, <3>6 DEF CancelledOutput, TypeInv, Outs
    <3>7. CASE Pending(l)
      BY <2>0, <3>7 DEF Pending, TypeInv, Outs, States
    <3>8. CASE Generate(l)
      BY <3>8 DEF Generate, TypeInv
    <3>9. CASE CallTools(l)
      <4>1. out' = [out EXCEPT ![l].ran = o.ran + 1]
        BY <3>9 DEF CallTools
      <4>2. o.ran + 1 \in Nat
        BY <2>0
      <4> QED BY <2>0, <4>1, <4>2 DEF TypeInv, Outs
    <3>2. CASE EndSingle(l)
      <4>1. Resumed(l) \in Seq(Toks)
        BY <2>0, ConcatProperties DEF Resumed
      <4>2. Clip(Resumed(l)) \in Seq(Toks) /\ Clip(Ones(Resumed(l))) \in Seq({0, 1})
        BY <4>1, OnesType, ClipPrefix
      <4>3. PICK st \in {"cancelled", "completed"} : out' = [out EXCEPT
               ![l].text = Clip(Resumed(l)), ![l].mask = Clip(Ones(Resumed(l))),
               ![l].until = sample_version[l[1]], ![l].status = st]
        BY <3>2 DEF EndSingle
      <4> QED BY <2>0, <4>2, <4>3 DEF TypeInv, Outs
    <3>3. CASE EndGenerate(l)
      <4>1. o.text \o r \in Seq(Toks)
        BY <2>0, ConcatProperties
      <4>2. Masked(l) \in Seq({0, 1})
        BY <2>0, OnesType, ConcatProperties DEF Masked
      <4>3. NextState(l, Masked(l)) \in States
        BY <4>2, StateType
      <4>4. out' = [out EXCEPT ![l].text = o.text \o r, ![l].mask = Masked(l),
                               ![l].state = NextState(l, Masked(l))]
        BY <3>3 DEF EndGenerate
      <4> QED BY <2>0, <4>1, <4>2, <4>3, <4>4 DEF TypeInv, Outs
    <3>4. CASE EndTools(l)
      <4> DEFINE z == [i \in 1..ToolLength |-> 0]
      <4>1. /\ o.text \o ToolTokens \in Seq(Toks)
            /\ o.mask \o z \in Seq({0, 1})
        BY <2>0, ToolAnswer, ConcatProperties
      <4>2. CASE Len(o.mask) + ToolLength >= ResponseLength
        BY <2>0, <3>4, <4>2 DEF EndTools, TypeInv, Outs, States
      <4>3. CASE ~(Len(o.mask) + ToolLength >= ResponseLength)
        <5>1. out' = [out EXCEPT ![l].state = "GENERATING", ![l].text = o.text \o ToolTokens,
                                 ![l].mask = o.mask \o z]
          BY <3>4, <4>3 DEF EndTools, AfterTools
        <5> HIDE DEF z
        <5> QED BY <2>0, <4>1, <5>1 DEF TypeInv, Outs, States
      <4> QED BY <4>2, <4>3
    <3>5. CASE CompletedOutput(l)
      <4> DEFINE t == SubSeq(o.text, Len(o.text) - Len(o.mask) + 1, Len(o.text))
      <4>1. out' = [out EXCEPT ![l].text = Clip(t), ![l].mask = Clip(o.mask),
                               ![l].until = sample_version[l[1]], ![l].status = "completed"]
        BY <3>5 DEF CompletedOutput
      <4>3. t = o.text /\ Clip(t) \in Seq(Toks)
        BY <2>0, WholeText, ClipPrefix
      <4> HIDE DEF t
      <4>2. Clip(o.mask) \in Seq({0, 1})
        BY <2>0, ClipPrefix
      <4> QED BY <2>0, <4>1, <4>2, <4>3 DEF TypeInv, Outs
    <3> QED BY <1>7, <3>1, <3>2, <3>3, <3>4, <3>5, <3>6, <3>7, <3>8, <3>9 DEF LoopNext
  <2> QED BY <2>a, <2>b, <2>c, <2>d DEF TypeInv
<1> QED BY <1>0, <1>1, <1>2, <1>3, <1>4, <1>5, <1>6, <1>7 DEF Next, ManagerNext

-----------------------------------------------------------------------------
(* Quiet synchronisations                                                  *)

LEMMA QuietStep == TypeInv /\ QuietInv /\ [Next]_vars => QuietInv'
<1> SUFFICES ASSUME TypeInv, QuietInv, [Next]_vars PROVE QuietInv'
  OBVIOUS
<1> DEFINE Manages == UNCHANGED <<generating, pc, task>>
<1>a. Manages => QuietInv'
  BY DEF QuietInv
<1>0. CASE UNCHANGED vars
  BY <1>0 DEF vars, syncVars, taskVars, serverVars, QuietInv
<1>1. CASE PauseBegin \/ MonitorRecovers \/ PauseEnd \/ UpdateParamVersion
           \/ ResumeBegin \/ ResumeEnd \/ Finished
  <2>1. Manages
    BY <1>1 DEF QuietInv, PauseBegin, MonitorRecovers, PauseEnd, UpdateParamVersion,
                ResumeBegin, ResumeEnd, Finished,
                vars, syncVars, taskVars, serverVars
  <2> QED BY <1>a, <2>1
<1>2. ASSUME NEW s \in Servers, CancelServer(s) \/ ResumeServer(s) PROVE QuietInv'
  <2>1. Manages
    BY <1>2 DEF QuietInv, CancelServer, ResumeServer, taskVars, serverVars
  <2> QED BY <1>a, <2>1
<1>3. ASSUME NEW w \in Workers, CancelWorker(w) \/ ResumeWorker(w) PROVE QuietInv'
  <2>1. Manages
    BY <1>3 DEF QuietInv, CancelWorker, ResumeWorker, taskVars, serverVars
  <2> QED BY <1>a, <2>1
<1>4. ASSUME NEW s \in Samples, Submit(s) PROVE QuietInv'
  <2>1. /\ generating' = generating
        /\ task' = [task EXCEPT ![s] = "active"]
        /\ task[s] # "active"
        /\ pc' = [l \in Loops |-> IF l[1] = s THEN Start(l) ELSE pc[l]]
    BY <1>4 DEF Submit, serverVars
  <2>2. \A l \in generating : l[1] # s
    BY <2>1 DEF QuietInv
  <2>3. \A l \in generating : pc'[l] = "wait" /\ l \in Loops
    BY <2>1, <2>2 DEF QuietInv
  <2>4. \A l \in Loops : pc'[l] # "idle" => task'[l[1]] = "active"
    BY <2>1 DEF QuietInv, TypeInv, Loops
  <2> QED BY <2>1, <2>3, <2>4 DEF QuietInv
<1>5. ASSUME NEW s \in Samples, Gather(s) PROVE QuietInv'
  <2>1. /\ generating' = generating
        /\ \E x \in {"cancelled", "done"} : task' = [task EXCEPT ![s] = x]
        /\ \A i \in 1..N : pc[<<s, i>>] = "returned"
        /\ pc' = [l \in Loops |-> IF l[1] = s THEN "idle" ELSE pc[l]]
    BY <1>5 DEF Gather, syncVars, serverVars
  <2>2. \A l \in Loops : l[1] = s => pc[l] = "returned"
    BY <2>1 DEF Loops
  <2>3. \A l \in generating : pc'[l] = "wait" /\ l \in Loops
    BY <2>1, <2>2 DEF QuietInv
  <2>4. \A l \in Loops : pc'[l] # "idle" => task'[l[1]] = "active"
    BY <2>1 DEF QuietInv, TypeInv, Loops
  <2> QED BY <2>1, <2>3, <2>4 DEF QuietInv
<1>6. ASSUME NEW l \in Loops, ServerNext(l) PROVE QuietInv'
  <2>1. UNCHANGED task
    BY <1>6 DEF ServerNext, Refuse, Accept, Token, FinishCall, taskVars
  <2>2. CASE Refuse(l)
    <3>1. generating' = generating /\ pc[l] = "call" /\ pc' = [pc EXCEPT ![l] = "reply"]
      BY <2>2 DEF Refuse, Return, Goto, serverVars
    <3> QED BY <2>1, <3>1 DEF QuietInv, TypeInv
  <2>3. CASE Accept(l)
    <3>1. /\ generating' = generating \cup {l} /\ pc[l] = "call"
          /\ pc' = [pc EXCEPT ![l] = "wait"]
      BY <2>3 DEF Accept, Goto
    <3> QED BY <2>1, <3>1 DEF QuietInv, TypeInv
  <2>4. CASE Token(l)
    <3>1. generating' \subseteq generating /\ pc' = pc
      BY <2>4 DEF Token
    <3> QED BY <2>1, <3>1 DEF QuietInv
  <2>5. CASE FinishCall(l)
    <3>1. /\ generating' = generating \ {l} /\ pc[l] = "wait"
          /\ pc' = [pc EXCEPT ![l] = "reply"]
      BY <2>5 DEF FinishCall, Return, Goto, Stop
    <3> QED BY <2>1, <3>1 DEF QuietInv, TypeInv
  <2> QED BY <1>6, <2>2, <2>3, <2>4, <2>5 DEF ServerNext
<1>7. ASSUME NEW l \in Loops, LoopNext(l) PROVE QuietInv'
  <2>1. /\ UNCHANGED <<task, generating>>
        /\ pc[l] \in {"begin", "reply", "turn", "tools"}
        /\ \E x \in {"call", "turn", "tools", "returned"} : pc' = [pc EXCEPT ![l] = x]
    BY <1>7, LoopMoves
  <2> QED BY <2>1 DEF QuietInv, TypeInv
<1> QED BY <1>0, <1>1, <1>2, <1>3, <1>4, <1>5, <1>6, <1>7 DEF Next, ManagerNext

(* Steps that leave the servers alone, and the loops that wait or call.    *)
LEMMA RefuseKept ==
    ASSUME RefuseInv, UNCHANGED <<paused, at, told, reply>>,
           \/ sync' = sync
           \/ sync' \notin {"cancel", "synchronise", "updated"}
           \/ sync = "synchronise" /\ sync' = "updated",
           \A l \in Loops : pc'[l] = pc[l] \/ pc'[l] \notin {"call", "wait", "reply"}
    PROVE  RefuseInv'
BY DEF RefuseInv, Between

(* Every server has been told to refuse when pause returns, and no loop is *)
(* left from before.                                                       *)
LEMMA RefuseStep == TypeInv /\ QuietInv /\ RefuseInv /\ [Next]_vars => RefuseInv'
<1> SUFFICES ASSUME TypeInv, QuietInv, RefuseInv, [Next]_vars PROVE RefuseInv'
  OBVIOUS
<1>0. CASE UNCHANGED vars \/ MonitorRecovers \/ UpdateParamVersion \/ ResumeEnd \/ Finished
  <2>1. /\ UNCHANGED <<paused, at, told, reply, pc>>
        /\ \/ sync' = sync \/ sync' = "run"
           \/ sync = "synchronise" /\ sync' = "updated"
    BY <1>0 DEF vars, syncVars, flagVars, MonitorRecovers, UpdateParamVersion, ResumeEnd, Finished
  <2> QED BY <2>1, RefuseKept
<1>1. CASE PauseBegin
  <2>1. UNCHANGED <<paused, at, reply, pc>> /\ sync' = "cancel" /\ told' = {}
    BY <1>1 DEF PauseBegin, flagVars
  <2> QED BY <2>1 DEF RefuseInv, Between
<1>2. CASE ResumeBegin
  <2>1. UNCHANGED <<paused, at, reply, pc>> /\ sync' = "resume"
    BY <1>2 DEF ResumeBegin, flagVars
  <2> QED BY <2>1 DEF RefuseInv, Between
<1>3. CASE PauseEnd
  <2>1. /\ UNCHANGED <<paused, at, reply, pc>> /\ sync' = "synchronise" /\ sync = "cancel"
        /\ told = Servers \cup Workers /\ \A s \in Samples : task[s] # "active"
    BY <1>3 DEF PauseEnd, flagVars
  <2>2. \A s \in Servers : paused[s]
    BY <2>1 DEF RefuseInv
  <2>3. \A l \in Loops : pc[l] = "idle"
    BY <2>1 DEF QuietInv, Loops
  <2> QED BY <2>1, <2>2, <2>3 DEF RefuseInv, Between
<1>4. ASSUME NEW s \in Servers, CancelServer(s) PROVE RefuseInv'
  <2>1. /\ UNCHANGED <<at, reply, pc, sync>> /\ sync = "cancel" /\ told' = told \cup {s}
        /\ paused' = [paused EXCEPT ![s] = TRUE]
    BY <1>4 DEF CancelServer
  <2> QED BY <2>1 DEF RefuseInv, Between
<1>5. ASSUME NEW s \in Servers, ResumeServer(s) PROVE RefuseInv'
  <2>1. /\ UNCHANGED <<at, reply, pc, sync>> /\ sync = "resume"
        /\ paused' = [paused EXCEPT ![s] = FALSE]
    BY <1>5 DEF ResumeServer
  <2> QED BY <2>1 DEF RefuseInv, Between
<1>6. ASSUME NEW w \in Workers, CancelWorker(w) \/ ResumeWorker(w) PROVE RefuseInv'
  <2>1. /\ UNCHANGED <<at, reply, pc, sync, paused>> /\ told' = told \cup {w}
        /\ sync \in {"cancel", "resume"}
    BY <1>6 DEF CancelWorker, ResumeWorker
  <2>2. \A s \in Servers : s \in told' => s \in told
    BY <2>1, PartialAssumption DEF Workers
  <2> QED BY <2>1, <2>2 DEF RefuseInv, Between
<1>7. ASSUME NEW s \in Samples, Submit(s) PROVE RefuseInv'
  <2>1. /\ UNCHANGED <<paused, at, told, reply, sync>>
        /\ pc' = [l \in Loops |-> IF l[1] = s THEN Start(l) ELSE pc[l]]
    BY <1>7 DEF Submit, syncVars, flagVars
  <2>2. \A l \in Loops : pc'[l] = pc[l] \/ pc'[l] \notin {"call", "wait", "reply"}
    BY <2>1 DEF Start
  <2> QED BY <2>1, <2>2, RefuseKept
<1>8. ASSUME NEW s \in Samples, Gather(s) PROVE RefuseInv'
  <2>1. /\ UNCHANGED <<paused, at, told, reply, sync>>
        /\ pc' = [l \in Loops |-> IF l[1] = s THEN "idle" ELSE pc[l]]
    BY <1>8 DEF Gather, syncVars, flagVars
  <2>2. \A l \in Loops : pc'[l] = pc[l] \/ pc'[l] \notin {"call", "wait", "reply"}
    BY <2>1
  <2> QED BY <2>1, <2>2, RefuseKept
<1>9. ASSUME NEW l \in Loops, ServerNext(l) PROVE RefuseInv'
  <2>1. UNCHANGED <<told, paused, sync>>
    BY <1>9 DEF ServerNext, Refuse, Accept, Token, FinishCall, syncVars, flagVars
  <2>2. CASE Refuse(l)
    <3>1. /\ pc' = [pc EXCEPT ![l] = "reply"] /\ at' = [at EXCEPT ![l] = None]
          /\ reply' = [reply EXCEPT ![l] = [tokens |-> <<>>, is_cancel |-> TRUE]]
      BY <2>2 DEF Refuse, Return, Goto
    <3> QED BY <2>1, <3>1 DEF RefuseInv, Between, TypeInv
  <2>3. CASE Accept(l)
    <3>1. /\ pc[l] = "call" /\ ~paused[at[l]] /\ pc' = [pc EXCEPT ![l] = "wait"]
          /\ UNCHANGED <<at, reply>>
      BY <2>3 DEF Accept, Goto
    <3>2. ~Between
      BY <3>1 DEF RefuseInv
    <3> QED BY <2>1, <3>1, <3>2 DEF RefuseInv, Between, TypeInv
  <2>4. CASE Token(l)
    <3>1. UNCHANGED <<pc, at, reply>>
      BY <2>4 DEF Token
    <3> QED BY <2>1, <3>1, RefuseKept
  <2>5. CASE FinishCall(l)
    <3>1. /\ pc[l] = "wait" /\ pc' = [pc EXCEPT ![l] = "reply"]
          /\ at' = [at EXCEPT ![l] = None]
      BY <2>5 DEF FinishCall, Return, Goto
    <3>2. ~Between
      BY <3>1 DEF RefuseInv
    <3> QED BY <2>1, <3>1, <3>2 DEF RefuseInv, Between, TypeInv
  <2> QED BY <1>9, <2>2, <2>3, <2>4, <2>5 DEF ServerNext
<1>10. ASSUME NEW l \in Loops, LoopNext(l) PROVE RefuseInv'
  <2>1. /\ UNCHANGED <<told, paused, sync>>
        /\ \/ at' = at /\ pc'[l] # "call"
           \/ \E s \in Servers : at' = [at EXCEPT ![l] = s]
        /\ \E x \in {"call", "turn", "tools", "returned"} : pc' = [pc EXCEPT ![l] = x]
        /\ reply' = reply \/ reply' = [reply EXCEPT ![l] = NoReply]
    BY <1>10, LoopMoves
  <2>2. at' \in [Loops -> Servers \cup {None}] /\ \A m \in Loops : pc'[m] = "call" => at'[m] \in Servers
    <3>1. /\ at \in [Loops -> Servers \cup {None}]
          /\ \A m \in Loops : pc[m] = "call" => at[m] \in Servers
      BY DEF RefuseInv
    <3>2. \A m \in Loops : m # l => pc'[m] = pc[m]
      BY <2>1 DEF TypeInv
    <3>3. CASE at' = at /\ pc'[l] # "call"
      BY <3>1, <3>2, <3>3
    <3>4. ASSUME NEW s \in Servers, at' = [at EXCEPT ![l] = s]
          PROVE  at' \in [Loops -> Servers \cup {None}] /\ \A m \in Loops : pc'[m] = "call" => at'[m] \in Servers
      BY <3>1, <3>2, <3>4
    <3> QED BY <2>1, <3>3, <3>4
  <2>3. \A m \in Loops : pc'[m] \in {"wait", "reply"} => pc'[m] = pc[m] /\ reply'[m] = reply[m]
    BY <2>1 DEF TypeInv
  <2> QED BY <2>1, <2>2, <2>3 DEF RefuseInv, Between
<1> QED BY <1>0, <1>1, <1>2, <1>3, <1>4, <1>5, <1>6, <1>7, <1>8, <1>9, <1>10 DEF Next, ManagerNext

-----------------------------------------------------------------------------
(* Outputs                                                                 *)

(* Steps that leave the loops and their outputs alone.                     *)
LEMMA ManagerKeeps ==
    ASSUME PauseBegin \/ MonitorRecovers \/ ManagerNext \/ Finished
    PROVE  UNCHANGED <<agent, task, sample_version, pc, req_output, reply, out, generating>>
<1>1. CASE PauseBegin \/ MonitorRecovers \/ PauseEnd \/ UpdateParamVersion
           \/ ResumeBegin \/ ResumeEnd \/ Finished
  BY <1>1 DEF PauseBegin, MonitorRecovers, PauseEnd, UpdateParamVersion,
                ResumeBegin, ResumeEnd, Finished,
              vars, taskVars, serverVars
<1>2. ASSUME NEW s \in Servers, CancelServer(s) \/ ResumeServer(s)
      PROVE  UNCHANGED <<agent, task, sample_version, pc, req_output, reply, out, generating>>
  BY <1>2 DEF CancelServer, ResumeServer, taskVars, serverVars
<1>3. ASSUME NEW w \in Workers, CancelWorker(w) \/ ResumeWorker(w)
      PROVE  UNCHANGED <<agent, task, sample_version, pc, req_output, reply, out, generating>>
  BY <1>3 DEF CancelWorker, ResumeWorker, taskVars, serverVars
<1> QED BY <1>1, <1>2, <1>3 DEF ManagerNext

(* What a loop's step does to its own output.                              *)
LEMMA LoopOutput ==
    ASSUME TypeInv, MaskInv, NEW l \in Loops, LoopNext(l)
    PROVE  LET o == out[l]
               n == out'[l]
               r == reply[l].tokens
           IN  \/ /\ pc[l] = "begin" /\ pc'[l] = (IF agent = "tool" THEN "turn" ELSE "call")
                  /\ UNCHANGED <<out[l].text, out[l].mask, out[l].until, out[l].status>>
                  /\ n.since = IF o.status = "new" THEN sample_version[l[1]] ELSE o.since
               \/ /\ pc[l] = "reply" /\ agent = "single_turn" /\ pc'[l] = "returned"
                  /\ n.text = Clip(o.text \o r) /\ n.mask = Clip(Ones(o.text \o r))
                  /\ n.since = o.since /\ n.until = sample_version[l[1]]
                  /\ n.status \in {"cancelled", "completed"}
               \/ /\ pc[l] = "reply" /\ agent = "tool" /\ pc'[l] = "turn"
                  /\ n.text = o.text \o r /\ n.mask = o.mask \o Ones(r)
                  /\ UNCHANGED <<out[l].since, out[l].until, out[l].status>>
               \/ /\ pc[l] = "turn" /\ pc'[l] = "returned" /\ n.status = "cancelled"
                  /\ UNCHANGED <<out[l].text, out[l].mask, out[l].since, out[l].until>>
               \/ /\ pc[l] = "turn" /\ pc'[l] = "returned" /\ n.status = "completed"
                  /\ n.text = Clip(o.text) /\ n.mask = Clip(o.mask)
                  /\ n.since = o.since /\ n.until = sample_version[l[1]]
               \/ /\ pc[l] = "turn" /\ pc'[l] \in {"turn", "call", "tools"}
                  /\ UNCHANGED <<out[l].text, out[l].mask, out[l].since, out[l].until, out[l].status>>
               \/ /\ pc[l] = "tools" /\ pc'[l] = "turn"
                  /\ UNCHANGED <<out[l].text, out[l].mask, out[l].since, out[l].until, out[l].status>>
               \/ /\ pc[l] = "tools" /\ pc'[l] = "turn"
                  /\ n.text = o.text \o ToolTokens
                  /\ n.mask = o.mask \o [i \in 1..ToolLength |-> 0]
                  /\ UNCHANGED <<out[l].since, out[l].until, out[l].status>>
<1> USE DEF TypeInv, Outs, Goto
<1>1. CASE BeginSingle(l)
  BY <1>1 DEF BeginSingle, Choose
<1>2. CASE EndSingle(l)
  BY <1>2 DEF EndSingle, Resumed
<1>3. CASE BeginTool(l)
  BY <1>3 DEF BeginTool
<1>4. CASE CancelledOutput(l)
  BY <1>4 DEF CancelledOutput
<1>5. CASE Pending(l)
  BY <1>5 DEF Pending
<1>6. CASE Generate(l)
  BY <1>6 DEF Generate, Choose
<1>7. CASE EndGenerate(l)
  <2> DEFINE t == out[l].text \o reply[l].tokens
             m == Masked(l)
  <2>1. out' = [out EXCEPT ![l].text = t, ![l].mask = m, ![l].state = NextState(l, m)]
    BY <1>7 DEF EndGenerate
  <2>2. pc[l] = "reply" /\ agent = "tool" /\ pc'[l] = "turn"
    BY <1>7 DEF EndGenerate
  <2> HIDE DEF t, m
  <2>3. /\ out'[l].text = t /\ out'[l].mask = m
        /\ UNCHANGED <<out[l].since, out[l].until, out[l].status>>
    BY <2>1
  <2>4. t = out[l].text \o reply[l].tokens /\ m = out[l].mask \o Ones(reply[l].tokens)
    BY DEF t, m, Masked
  <2> HIDE DEF TypeInv, Outs, Goto
  <2> QED BY <2>2, <2>3, <2>4, Zenon
<1>8. CASE CallTools(l)
  BY <1>8 DEF CallTools
<1>9. CASE EndTools(l)
  <2>1. CASE Len(out[l].mask) + ToolLength >= ResponseLength
    BY <1>9, <2>1 DEF EndTools
  <2>2. CASE ~(Len(out[l].mask) + ToolLength >= ResponseLength)
    <3> DEFINE t == out[l].text \o ToolTokens
               m == out[l].mask \o [i \in 1..ToolLength |-> 0]
    <3>1. out' = [out EXCEPT ![l].text = t, ![l].mask = m, ![l].state = "GENERATING"]
      BY <1>9, <2>2 DEF EndTools, AfterTools
    <3>2. pc[l] = "tools" /\ pc'[l] = "turn"
      BY <1>9 DEF EndTools
    <3> HIDE DEF t, m
    <3>3. /\ out'[l].text = t /\ out'[l].mask = m
          /\ UNCHANGED <<out[l].since, out[l].until, out[l].status>>
      BY <3>1
    <3>4. /\ t = out[l].text \o ToolTokens
          /\ m = out[l].mask \o [i \in 1..ToolLength |-> 0]
      BY DEF t, m
    <3> HIDE DEF TypeInv, Outs, Goto
    <3> QED BY <3>2, <3>3, <3>4, Zenon
  <2> QED BY <2>1, <2>2
<1>10. CASE CompletedOutput(l)
  <2> DEFINE t == SubSeq(out[l].text, Len(out[l].text) - Len(out[l].mask) + 1, Len(out[l].text))
  <2>1. out' = [out EXCEPT ![l].text = Clip(t), ![l].mask = Clip(out[l].mask),
                           ![l].until = sample_version[l[1]], ![l].status = "completed"]
    BY <1>10 DEF CompletedOutput
  <2>2. pc[l] = "turn" /\ pc'[l] = "returned"
    BY <1>10 DEF CompletedOutput
  <2>3. t = out[l].text
    BY WholeText
  <2> HIDE DEF t
  <2>4. /\ out'[l].text = Clip(out[l].text) /\ out'[l].mask = Clip(out[l].mask)
        /\ out'[l].until = sample_version[l[1]]
        /\ out'[l].status = "completed" /\ out'[l].since = out[l].since
    BY <2>1, <2>3
  <2> HIDE DEF TypeInv, Outs, Goto
  <2> QED BY <2>2, <2>4, Zenon
<1> QED BY <1>1, <1>2, <1>3, <1>4, <1>5, <1>6, <1>7, <1>8, <1>9, <1>10 DEF LoopNext

LEMMA StatusStep ==
    TypeInv /\ QuietInv /\ StatusInv /\ VersionInv /\ MaskInv /\ [Next]_vars => StatusInv'
<1> SUFFICES ASSUME TypeInv, QuietInv, StatusInv, VersionInv, MaskInv, [Next]_vars,
                    NEW m \in Loops
             PROVE  StatusOf(m)'
  BY DEF StatusInv
<1>a. StatusOf(m)
  BY DEF StatusInv
<1>0. CASE UNCHANGED vars \/ PauseBegin \/ MonitorRecovers \/ ManagerNext \/ Finished
  <2>1. UNCHANGED <<agent, pc, out>>
    BY <1>0, ManagerKeeps DEF vars
  <2> QED BY <1>a, <2>1 DEF StatusOf
<1>1. ASSUME NEW s \in Samples, Submit(s) PROVE StatusOf(m)'
  <2>1. /\ UNCHANGED <<agent, out>> /\ task[s] # "active"
        /\ pc'[m] = IF m[1] = s THEN Start(m) ELSE pc[m]
    BY <1>1 DEF Submit
  <2>2. m[1] = s => pc[m] = "idle"
    BY <2>1 DEF QuietInv
  <2> QED BY <1>a, <2>1, <2>2 DEF StatusOf, Start
<1>2. ASSUME NEW s \in Samples, Gather(s) PROVE StatusOf(m)'
  <2>1. /\ UNCHANGED <<agent, out>>
        /\ \A i \in 1..N : pc[<<s, i>>] = "returned"
        /\ pc'[m] = IF m[1] = s THEN "idle" ELSE pc[m]
    BY <1>2 DEF Gather
  <2>2. m[1] = s => pc[m] = "returned"
    BY <2>1 DEF Loops
  <2> QED BY <1>a, <2>1, <2>2 DEF StatusOf
<1>3. ASSUME NEW l \in Loops, ServerNext(l) PROVE StatusOf(m)'
  <2>1. UNCHANGED <<agent, out>>
    BY <1>3 DEF ServerNext, Refuse, Accept, Token, FinishCall
  <2>2. CASE Refuse(l) \/ Accept(l) \/ FinishCall(l)
    <3>1. /\ pc[l] \in {"call", "wait"}
          /\ \E x \in {"wait", "reply"} : pc' = [pc EXCEPT ![l] = x]
      BY <2>2 DEF Refuse, Accept, FinishCall, Return, Goto
    <3> QED BY <1>a, <2>1, <3>1 DEF StatusOf, TypeInv
  <2>3. CASE Token(l)
    BY <1>a, <2>1, <2>3 DEF Token, StatusOf
  <2> QED BY <1>3, <2>2, <2>3 DEF ServerNext
<1>4. ASSUME NEW l \in Loops, LoopNext(l) PROVE StatusOf(m)'
  <2>0. /\ agent' = agent
        /\ \E x \in {"call", "turn", "tools", "returned"} : pc' = [pc EXCEPT ![l] = x]
        /\ \A k \in Loops \ {l} : out'[k] = out[k]
    BY <1>4, LoopMoves
  <2>1. CASE m # l
    <3>1. UNCHANGED <<agent, pc[m], out[m]>>
      BY <2>0, <2>1 DEF TypeInv
    <3> QED BY <1>a, <3>1 DEF StatusOf
  <2>2. CASE m = l
    <3>1. /\ out[l].text \in Seq(Toks) /\ reply[l].tokens \in Seq(Toks)
          /\ agent \in {"single_turn", "tool"}
          /\ pc[l] = "reply" => Generated(reply[l].tokens)
      BY DEF TypeInv, Outs, VersionInv, RequestOf
    <3>2. CASE agent = "single_turn"
      <4>1. pc[l] \notin {"turn", "tools"} /\ Generated(out[l].text)
        BY <1>a, <2>2, <3>2 DEF StatusOf
      <4>2. pc[l] = "reply" => Generated(Clip(out[l].text \o reply[l].tokens))
        BY <3>1, <4>1, GeneratedConcat, GeneratedClip, ConcatProperties
      <4> QED BY <1>4, <1>a, <2>0, <2>2, <3>2, <4>1, <4>2, LoopOutput DEF StatusOf
    <3>3. CASE agent = "tool"
      BY <1>4, <1>a, <2>0, <2>2, <3>3, LoopOutput DEF StatusOf
    <3> QED BY <3>1, <3>2, <3>3
  <2> QED BY <2>1, <2>2
<1> QED BY <1>0, <1>1, <1>2, <1>3, <1>4 DEF Next

LEMMA UpdateOnly ==
    ASSUME UNCHANGED vars \/ PauseBegin \/ MonitorRecovers \/ ManagerNext \/ Finished,
           ~UpdateParamVersion
    PROVE  param_version' = param_version
BY DEF vars, syncVars, PauseBegin, MonitorRecovers, ManagerNext, Finished, CancelServer,
       ResumeServer, CancelWorker, ResumeWorker, PauseEnd, ResumeBegin, ResumeEnd

LEMMA LabelStep == TypeInv /\ QuietInv /\ LabelInv /\ [Next]_vars => LabelInv'
<1> SUFFICES ASSUME TypeInv, QuietInv, LabelInv, [Next]_vars PROVE LabelInv'
  OBVIOUS
<1>0. CASE UpdateParamVersion
  <2>1. /\ UNCHANGED <<task, sample_version>> /\ param_version' = param_version + 1
        /\ sync = "synchronise" /\ sync' = "updated"
    BY <1>0 DEF UpdateParamVersion, taskVars
  <2> QED BY <2>1 DEF LabelInv, TypeInv
<1>1. CASE (UNCHANGED vars \/ PauseBegin \/ MonitorRecovers \/ ManagerNext \/ Finished)
           /\ ~UpdateParamVersion
  <2>1. UNCHANGED <<task, sample_version>>
    BY <1>1, ManagerKeeps DEF vars, taskVars
  <2>2. param_version' = param_version
    BY <1>1, UpdateOnly
  <2>3. sync' = "synchronise" => sync = "synchronise" \/ \A s \in Samples : task[s] # "active"
    BY <1>1 DEF vars, syncVars, PauseBegin, MonitorRecovers, ManagerNext, Finished, CancelServer,
                ResumeServer, CancelWorker, ResumeWorker, PauseEnd, ResumeBegin, ResumeEnd
  <2> QED BY <2>1, <2>2, <2>3 DEF LabelInv
<1>3. ASSUME NEW s \in Samples, Submit(s) PROVE LabelInv'
  <2>1. /\ param_version' = param_version /\ task' = [task EXCEPT ![s] = "active"]
        /\ sample_version' = [sample_version EXCEPT ![s] = param_version] /\ sync' = sync
    BY <1>3 DEF Submit, Version, syncVars
  <2> QED BY <2>1 DEF LabelInv, TypeInv
<1>4. ASSUME NEW s \in Samples, Gather(s) PROVE LabelInv'
  <2>1. /\ UNCHANGED <<param_version, sample_version, sync>>
        /\ \E x \in {"cancelled", "done"} : task' = [task EXCEPT ![s] = x]
    BY <1>4 DEF Gather, syncVars
  <2> QED BY <2>1 DEF LabelInv, TypeInv
<1>5. ASSUME NEW l \in Loops, LoopNext(l) \/ ServerNext(l) PROVE LabelInv'
  <2>1. CASE LoopNext(l)
    BY <2>1, LoopMoves DEF LabelInv
  <2>2. CASE ServerNext(l)
    BY <2>2 DEF LabelInv, ServerNext, Refuse, Accept, Token, FinishCall, syncVars, taskVars
  <2> QED BY <1>5, <2>1, <2>2
<1> QED BY <1>0, <1>1, <1>3, <1>4, <1>5 DEF Next

LEMMA RequestStep ==
    ASSUME TypeInv, QuietInv, RefuseInv, VersionInv, [Next]_vars, NEW m \in Loops
    PROVE  RequestOf(m)'
<1>a. RequestOf(m)
  BY DEF VersionInv
<1>0. CASE UpdateParamVersion
  <2>1. UNCHANGED <<pc, reply>> /\ Between
    BY <1>0 DEF UpdateParamVersion, Between
  <2>2. pc[m] # "wait" /\ (pc[m] = "reply" => reply[m].tokens = <<>>)
    BY <2>1 DEF RefuseInv
  <2> QED BY <2>1, <2>2, EmptyTokens DEF RequestOf
<1>1. CASE (UNCHANGED vars \/ PauseBegin \/ MonitorRecovers \/ ManagerNext \/ Finished)
           /\ ~UpdateParamVersion
  <2>1. UNCHANGED <<pc, req_output, reply, param_version>>
    BY <1>1, ManagerKeeps, UpdateOnly DEF vars, serverVars
  <2> QED BY <1>a, <2>1 DEF RequestOf
<1>3. ASSUME NEW s \in Samples, Submit(s) \/ Gather(s) PROVE RequestOf(m)'
  <2>1. /\ UNCHANGED <<req_output, reply, param_version>>
        /\ pc'[m] = pc[m] \/ pc'[m] \in {"idle", "begin", "returned"}
    BY <1>3 DEF Submit, Start, Gather, syncVars, serverVars
  <2> QED BY <1>a, <2>1 DEF RequestOf
<1>4. ASSUME NEW l \in Loops, ServerNext(l) PROVE RequestOf(m)'
  <2>0. param_version' = param_version
    BY <1>4 DEF ServerNext, Refuse, Accept, Token, FinishCall, syncVars
  <2>1. CASE Refuse(l)
    <3>1. /\ pc' = [pc EXCEPT ![l] = "reply"] /\ req_output' = req_output
          /\ reply' = [reply EXCEPT ![l] = [tokens |-> <<>>, is_cancel |-> TRUE]]
      BY <2>1 DEF Refuse, Return, Goto, serverVars
    <3> QED BY <1>a, <2>0, <3>1, EmptyTokens DEF RequestOf, TypeInv
  <2>2. CASE Accept(l)
    <3>1. /\ pc' = [pc EXCEPT ![l] = "wait"] /\ reply' = reply
          /\ req_output' = [req_output EXCEPT ![l] = None]
      BY <2>2 DEF Accept, Goto
    <3>2. Tokens(None) = <<>>
      BY DEF Tokens
    <3>3. CASE m = l
      <4>1. pc'[m] = "wait" /\ Tokens(req_output'[m]) = <<>>
        BY <3>1, <3>2, <3>3 DEF TypeInv
      <4> QED BY <4>1, EmptyTokens DEF RequestOf, Tokens
    <3>4. CASE m # l
      <4>1. UNCHANGED <<pc[m], req_output[m], reply[m]>>
        BY <3>1, <3>4 DEF TypeInv
      <4> QED BY <1>a, <2>0, <4>1 DEF RequestOf, Tokens
    <3> QED BY <3>3, <3>4
  <2>3. CASE Token(l)
    <3>1. /\ UNCHANGED <<pc, reply>>
          /\ \E k \in {"text", "open", "close", "eos"} : req_output' =
               [req_output EXCEPT ![l] = Append(Tokens(req_output[l]), <<k, param_version>>)]
      BY <2>3 DEF Token
    <3>2. pc[l] = "wait"
      BY <2>3 DEF Token, QuietInv
    <3>3. CASE m = l
      <4> DEFINE t == Tokens(req_output[l])
      <4>1. t \in Seq(Toks) /\ Stamped(t, param_version, param_version) /\ Generated(t)
        BY <1>a, <3>2, <3>3, TokensType DEF RequestOf, TypeInv
      <4>2. /\ req_output'[l] \in Seq(Toks)
            /\ Stamped(req_output'[l], param_version, param_version) /\ Generated(req_output'[l])
        <5> HIDE DEF t
        <5>1. PICK k \in {"text", "open", "close", "eos"} :
                 req_output'[l] = Append(t, <<k, param_version>>)
          BY <3>1 DEF TypeInv, t
        <5> QED BY <4>1, <5>1, TokenAdded DEF TypeInv
      <4>3. (Tokens(req_output[l]))' = <<>> \/ (Tokens(req_output[l]))' = req_output'[l]
        BY DEF Tokens
      <4>4. /\ Stamped((Tokens(req_output[l]))', param_version, param_version)
            /\ Generated((Tokens(req_output[l]))')
        BY <4>2, <4>3, EmptyTokens
      <4> QED BY <2>0, <3>1, <3>2, <3>3, <4>4 DEF RequestOf
    <3>4. CASE m # l
      <4>1. UNCHANGED <<pc[m], req_output[m], reply[m]>>
        BY <3>1, <3>4 DEF TypeInv
      <4> QED BY <1>a, <2>0, <4>1 DEF RequestOf, Tokens
    <3> QED BY <3>3, <3>4
  <2>4. CASE FinishCall(l)
    <3>1. /\ pc[l] = "wait" /\ pc' = [pc EXCEPT ![l] = "reply"]
          /\ \A k \in Loops \ {l} : req_output'[k] = req_output[k]
          /\ reply' = [reply EXCEPT ![l] = [tokens |-> Tokens(req_output[l]),
                                            is_cancel |-> WasCancelled(l)]]
      BY <2>4 DEF FinishCall, Return, Goto, TypeInv
    <3>3. CASE m = l
      <4>1. pc'[m] = "reply" /\ reply'[m].tokens = Tokens(req_output[m]) /\ pc[m] = "wait"
        BY <3>1, <3>3 DEF TypeInv
      <4> QED BY <1>a, <2>0, <4>1 DEF RequestOf
    <3>4. CASE m # l
      <4>1. UNCHANGED <<pc[m], req_output[m], reply[m]>>
        BY <3>1, <3>4 DEF TypeInv
      <4> QED BY <1>a, <2>0, <4>1 DEF RequestOf, Tokens
    <3> QED BY <3>3, <3>4
  <2> QED BY <1>4, <2>1, <2>2, <2>3, <2>4 DEF ServerNext
<1>5. ASSUME NEW l \in Loops, LoopNext(l) PROVE RequestOf(m)'
  <2>1. /\ UNCHANGED <<param_version, req_output>>
        /\ \E x \in {"call", "turn", "tools", "returned"} : pc' = [pc EXCEPT ![l] = x]
        /\ reply' = reply \/ reply' = [reply EXCEPT ![l] = NoReply]
    BY <1>5, LoopMoves
  <2>2. CASE m = l
    <3>1. pc'[m] \in {"call", "turn", "tools", "returned"}
      BY <2>1, <2>2 DEF TypeInv
    <3> QED BY <3>1 DEF RequestOf
  <2>3. CASE m # l
    <3>1. UNCHANGED <<pc[m], req_output[m], reply[m]>>
      BY <2>1, <2>3 DEF TypeInv
    <3> QED BY <1>a, <2>1, <3>1 DEF RequestOf, Tokens
  <2> QED BY <2>2, <2>3
<1> QED BY <1>0, <1>1, <1>3, <1>4, <1>5 DEF Next

LEMMA StampStep ==
    ASSUME TypeInv, TypeInv', QuietInv, StatusInv, VersionInv, MaskInv, [Next]_vars,
           NEW m \in Loops
    PROVE  StampOf(m)'
<1>a. /\ StampOf(m) /\ StatusOf(m) /\ RequestOf(m)
      /\ m[1] \in Samples /\ sample_version[m[1]] \in Nat
      /\ out[m].text \in Seq(Toks) /\ out[m].since \in Nat /\ out[m].until \in Nat
      /\ reply[m].tokens \in Seq(Toks) /\ param_version \in Nat /\ param_version' \in Nat
      /\ sample_version[m[1]] <= param_version
      /\ out[m].status \in {"new", "cancelled", "completed"}
  BY DEF VersionInv, StatusInv, LabelInv, TypeInv, Outs, Loops
<1>0. CASE UNCHANGED vars \/ PauseBegin \/ MonitorRecovers \/ ManagerNext \/ Finished
           \/ \E s \in Samples : Submit(s) \/ Gather(s)
  <2>1. out' = out
    BY <1>0, ManagerKeeps DEF vars, Submit, Gather
  <2>2. param_version <= param_version'
    <3>1. CASE UpdateParamVersion
      BY <1>a, <3>1 DEF UpdateParamVersion
    <3>2. CASE \E s \in Samples : Submit(s) \/ Gather(s)
      BY <1>a, <3>2 DEF Submit, Gather, syncVars
    <3>3. CASE ~UpdateParamVersion /\ ~\E s \in Samples : Submit(s) \/ Gather(s)
      BY <1>0, <1>a, <3>3, UpdateOnly
    <3> QED BY <3>1, <3>2, <3>3
  <2>3. out[m].since <= param_version'
    BY <1>a, <2>2 DEF StampOf
  <2>4. out[m].status # "completed" => Stamped(out[m].text, out[m].since, param_version')
    BY <1>a, <2>2, StampedWider DEF StampOf
  <2> QED BY <1>a, <2>1, <2>3, <2>4 DEF StampOf
<1>2. ASSUME NEW l \in Loops, ServerNext(l) PROVE StampOf(m)'
  <2>1. UNCHANGED <<out, param_version>>
    BY <1>2 DEF ServerNext, Refuse, Accept, Token, FinishCall, syncVars
  <2> QED BY <1>a, <2>1 DEF StampOf
<1>3. ASSUME NEW l \in Loops, LoopNext(l) PROVE StampOf(m)'
  <2>0. /\ param_version' = param_version
        /\ \A k \in Loops \ {l} : out'[k] = out[k]
        /\ pc[l] \in {"begin", "reply", "turn", "tools"}
    BY <1>3, LoopMoves
  <2>1. CASE m # l
    BY <1>a, <2>0, <2>1 DEF StampOf
  <2>2. CASE m = l
    <3> DEFINE v == param_version
               sv == sample_version[m[1]]
               o == out[m]
               n == out'[m]
               r == reply[m].tokens
    <3>1. v <= sv + 1 /\ sv <= v /\ v \in Nat /\ sv \in Nat
      BY <1>a, <2>0, <2>2 DEF QuietInv, VersionInv, LabelInv
    <3>2. o.status # "completed" /\ Stamped(o.text, o.since, v) /\ o.since <= v
      BY <1>a, <2>0, <2>2 DEF StatusOf, StampOf
    <3>3. n.since \in Nat /\ n.until \in Nat /\ n.status \in {"new", "cancelled", "completed"}
      BY DEF TypeInv, Outs
    <3>4. /\ n.since <= v
          /\ Stamped(n.text, n.since, v)
          /\ n.status = "completed" => n.until = sv
      <4>1. CASE /\ pc[l] = "begin" /\ UNCHANGED <<out[l].text, out[l].mask, out[l].until, out[l].status>>
                 /\ n.since = IF o.status = "new" THEN sample_version[l[1]] ELSE o.since
        <5>1. n.text = o.text /\ n.status # "completed"
          BY <2>2, <3>2, <4>1
        <5>2. CASE o.status = "new"
          <6>1. o.text = <<>> /\ n.since = sv
            BY <1>a, <2>2, <4>1, <5>2 DEF StatusOf
          <6> QED BY <3>1, <5>1, <6>1, EmptyTokens
        <5>3. CASE o.status # "new"
          BY <2>2, <3>2, <4>1, <5>1, <5>3
        <5> QED BY <5>2, <5>3
      <4>2. CASE /\ pc[l] = "reply"
                 /\ n.text = Clip(o.text \o r) \/ n.text = o.text \o r
                 /\ n.since = o.since
                 /\ n.status = "completed" => n.until = sv
        <5>1. Stamped(r, param_version, param_version)
          BY <1>a, <2>2, <4>2 DEF RequestOf
        <5>2. Stamped(r, o.since, v)
          BY <1>a, <3>1, <3>2, <5>1, StampedWider
        <5>3. Stamped(o.text \o r, o.since, v) /\ o.text \o r \in Seq(Toks)
          BY <1>a, <3>1, <3>2, <5>2, StampedConcat, ConcatProperties
        <5>4. Stamped(Clip(o.text \o r), o.since, v)
          BY <5>3, StampedClip
        <5> QED BY <3>2, <4>2, <5>3, <5>4
      <4>3. CASE /\ n.text = Clip(o.text) \/ n.text = o.text
                 /\ n.since = o.since
                 /\ n.status = "completed" => n.until = sv
        BY <1>a, <3>2, <4>3, StampedClip
      <4>4. CASE /\ n.text = o.text \o ToolTokens /\ n.since = o.since
                 /\ n.status = "completed" => n.until = sv
        BY <1>a, <3>1, <3>2, <4>4, StampedConcat, ToolAnswer
      <4> QED BY <1>3, <2>2, <3>2, <4>1, <4>2, <4>3, <4>4, LoopOutput
    <3>5. n.status = "completed" => Stamped(n.text, n.since, n.until + 1)
      <4>1. ASSUME n.status = "completed" PROVE Stamped(n.text, n.since, n.until + 1)
        <5>0. n.text \in Seq(Toks)
          BY DEF TypeInv, Outs
        <5>1. n.until = sv /\ v <= n.until + 1 /\ n.until + 1 \in Nat
          BY <3>1, <3>4, <4>1
        <5> QED BY <3>1, <3>3, <3>4, <5>0, <5>1, StampedWider
      <4> QED BY <4>1
    <3> QED BY <2>0, <3>4, <3>5 DEF StampOf
  <2> QED BY <2>1, <2>2
<1> QED BY <1>0, <1>2, <1>3 DEF Next

-----------------------------------------------------------------------------
(* Masks                                                                   *)

LEMMA MaskStep ==
    ASSUME TypeInv, StatusInv, VersionInv, MaskInv, [Next]_vars, NEW m \in Loops
    PROVE  Matches(out[m].mask, out[m].text)'
<1>a. /\ Matches(out[m].mask, out[m].text)
      /\ out[m].mask \in Seq({0, 1}) /\ out[m].text \in Seq(Toks)
      /\ reply[m].tokens \in Seq(Toks)
      /\ StatusOf(m) /\ RequestOf(m)
  BY DEF MaskInv, TypeInv, Outs, StatusInv, VersionInv
<1>0. CASE UNCHANGED vars \/ PauseBegin \/ MonitorRecovers \/ ManagerNext \/ Finished
           \/ (\E s \in Samples : Submit(s) \/ Gather(s)) \/ (\E l \in Loops : ServerNext(l))
  <2>1. out' = out
    BY <1>0, ManagerKeeps DEF vars, Submit, Gather, ServerNext, Refuse, Accept, Token, FinishCall
  <2> QED BY <1>a, <2>1
<1>1. ASSUME NEW l \in Loops, LoopNext(l) PROVE Matches(out[m].mask, out[m].text)'
  <2>1. CASE m # l
    BY <1>1, <1>a, <2>1, LoopMoves
  <2>2. CASE m = l
    <3> DEFINE o == out[m]
               n == out'[m]
               r == reply[m].tokens
               z == [i \in 1..ToolLength |-> 0]
    <3>1. CASE n.text = o.text /\ n.mask = o.mask
      BY <1>a, <3>1
    <3>2. CASE /\ pc[m] = "reply" /\ agent = "single_turn"
               /\ n.text = Clip(o.text \o r) /\ n.mask = Clip(Ones(o.text \o r))
      <4>1. Generated(o.text) /\ Generated(r) /\ o.text \o r \in Seq(Toks)
        BY <1>a, <3>2, ConcatProperties DEF StatusOf, RequestOf
      <4>2. Generated(o.text \o r)
        BY <1>a, <4>1, GeneratedConcat
      <4>3. Ones(o.text \o r) \in Seq({0, 1}) /\ Matches(Ones(o.text \o r), o.text \o r)
        BY <4>1, <4>2, OnesMatch
      <4>4. Matches(Clip(Ones(o.text \o r)), Clip(o.text \o r))
        BY <4>1, <4>3, MatchesClip
      <4> QED BY <3>2, <4>4
    <3>3. CASE pc[m] = "reply" /\ n.text = o.text \o r /\ n.mask = o.mask \o Ones(r)
      <4>1. Generated(r)
        BY <1>a, <3>3 DEF RequestOf
      <4>2. Ones(r) \in Seq({0, 1}) /\ Matches(Ones(r), r)
        BY <1>a, <4>1, OnesMatch
      <4>3. Matches(o.mask \o Ones(r), o.text \o r)
        BY <1>a, <4>2, MatchesConcat
      <4> QED BY <3>3, <4>3
    <3>4. CASE n.text = Clip(o.text) /\ n.mask = Clip(o.mask)
      BY <1>a, <3>4, MatchesClip
    <3>5. CASE n.text = o.text \o ToolTokens /\ n.mask = o.mask \o z
      <4>1. z \in Seq({0, 1}) /\ ToolTokens \in Seq(Toks) /\ Matches(z, ToolTokens)
        BY ToolAnswer
      <4> HIDE DEF z
      <4>2. Matches(o.mask \o z, o.text \o ToolTokens)
        BY <1>a, <4>1, MatchesConcat
      <4> QED BY <3>5, <4>2
    <3> QED BY <1>1, <2>2, <3>1, <3>2, <3>3, <3>4, <3>5, LoopOutput
  <2> QED BY <2>1, <2>2
<1> QED BY <1>0, <1>1 DEF Next

-----------------------------------------------------------------------------
(* The invariant and the theorems                                          *)

LEMMA InvInit == Init => Inv
<1> SUFFICES ASSUME Init PROVE Inv
  OBVIOUS
<1>1. TypeInv
  BY TypeInit
<1>2. QuietInv /\ RefuseInv
  BY DEF Init, QuietInv, RefuseInv, Between
<1>3. /\ \A s \in Samples : sample_version[s] = 0 /\ task[s] = "waiting"
      /\ param_version = 0
  BY DEF Init
<1>4. \A l \in Loops : pc[l] = "idle" /\ out[l] = Fresh /\ l[1] \in Samples
  BY DEF Init, Loops
<1>5. StatusInv
  BY <1>4, EmptyTokens DEF StatusInv, StatusOf, Fresh
<1>6. VersionInv
  BY <1>3, <1>4, EmptyTokens DEF VersionInv, LabelInv, RequestOf, StampOf, Fresh
<1>7. MaskInv
  BY <1>4, EmptyTokens DEF MaskInv, Fresh
<1> QED BY <1>1, <1>2, <1>5, <1>6, <1>7 DEF Inv

LEMMA InvStep == Inv /\ [Next]_vars => Inv'
<1> SUFFICES ASSUME TypeInv, QuietInv, RefuseInv, StatusInv, VersionInv, MaskInv, [Next]_vars
             PROVE  Inv'
  BY DEF Inv
<1>1. TypeInv'
  BY TypeStep
<1>2. QuietInv' /\ RefuseInv'
  BY QuietStep, RefuseStep
<1>3. StatusInv'
  BY StatusStep
<1>4. LabelInv'
  BY LabelStep DEF VersionInv
<1>5. \A m \in Loops : RequestOf(m)'
  BY RequestStep
<1>6. \A m \in Loops : StampOf(m)'
  BY <1>1, StampStep
<1>7. \A m \in Loops : Matches(out[m].mask, out[m].text)'
  BY MaskStep
<1> QED BY <1>1, <1>2, <1>3, <1>4, <1>5, <1>6, <1>7 DEF Inv, VersionInv, MaskInv

LEMMA Invariant == Spec => []Inv
BY InvInit, InvStep, PTL DEF Spec

(* Nothing is generated and no loop waits for a server from the end of a   *)
(* pause to the resume, also when the monitor lets new loops start.        *)
THEOREM SyncIsQuiet == Spec => []SyncQuiet
<1>1. Inv => SyncQuiet
  <2> SUFFICES ASSUME Inv, Between
               PROVE  generating = {} /\ \A l \in Loops : pc[l] # "wait"
    BY DEF SyncQuiet, Between
  <2> QED BY DEF Inv, QuietInv, RefuseInv
<1> QED BY <1>1, Invariant, PTL

(* However often a response is interrupted, its tokens are of no version   *)
(* before the first it is labelled with and of none but the next after the *)
(* last.                                                                   *)
THEOREM LabelsBracket == Spec => []VersionsBracket
<1>1. Inv => VersionsBracket
  BY DEF Inv, VersionInv, StampOf, Stamped, VersionsBracket
<1> QED BY <1>1, Invariant, PTL

(* The mask of a response keeps in step with its tokens, through           *)
(* interruptions, tool answers and the cut to the length of a response.    *)
THEOREM MasksMatch == Spec => []MaskMatches
<1>1. Inv => MaskMatches
  <2> SUFFICES ASSUME Inv, NEW l \in Loops
               PROVE  /\ Len(out[l].mask) = Len(out[l].text)
                      /\ \A i \in 1..Len(out[l].mask) :
                            (out[l].mask[i] = 0) = (out[l].text[i][1] = "tool")
    BY DEF MaskMatches
  <2> QED BY DEF Inv, MaskInv, Matches
<1> QED BY <1>1, Invariant, PTL

-----------------------------------------------------------------------------
(* Interrupted generation keeps the promise of Responses, for every number *)
(* of servers, workers, samples and responses, and every length.           *)

(* Sequences that agree where the first is defined.                        *)
LEMMA PrefixByIndex ==
    ASSUME NEW s \in Seq(Toks), NEW t \in Seq(Toks), Len(s) <= Len(t),
           \A i \in 1..Len(s) : s[i] = t[i]
    PROVE  IsPrefix(s, t)
<1>1. Len(s) \in Nat /\ Len(t) \in Nat
  OBVIOUS
<1>2. /\ SubSeq(s, 1, Len(s)) = [i \in 1..Len(s) |-> s[1 + i - 1]]
      /\ SubSeq(t, 1, Len(s)) = [i \in 1..Len(s) |-> t[1 + i - 1]]
  BY <1>1, SubSeqProperties
<1>3. \A i \in 1..Len(s) : s[1 + i - 1] = t[1 + i - 1]
  BY <1>1
<1>4. SubSeq(s, 1, Len(s)) = SubSeq(t, 1, Len(s))
  BY <1>2, <1>3
<1> QED BY <1>4 DEF IsPrefix

LEMMA ClipEmpty ==
    ASSUME NEW s \in Seq(Toks), Len(s) = 0
    PROVE  Clip(s) = s
<1>1. /\ Clip(s) \in Seq(Toks)
      /\ Len(Clip(s)) = IF Len(s) < ResponseLength THEN Len(s) ELSE ResponseLength
  BY ClipPrefix
<1>2. Len(Clip(s)) = 0
  BY <1>1, PartialAssumption
<1> QED BY <1>1, <1>2, SeqEqual

LEMMA ClipTwice ==
    ASSUME NEW s \in Seq(Toks)
    PROVE  Clip(Clip(s)) = Clip(s)
<1>1. /\ Clip(s) \in Seq(Toks) /\ Clip(Clip(s)) \in Seq(Toks)
      /\ Len(Clip(s)) = IF Len(s) < ResponseLength THEN Len(s) ELSE ResponseLength
      /\ Len(Clip(Clip(s))) = IF Len(Clip(s)) < ResponseLength THEN Len(Clip(s)) ELSE ResponseLength
      /\ \A i \in 1..Len(Clip(Clip(s))) : Clip(Clip(s))[i] = Clip(s)[i]
  BY ClipPrefix
<1>2. Len(Clip(Clip(s))) = Len(Clip(s))
  BY <1>1, PartialAssumption
<1> QED BY <1>1, <1>2, SeqEqual

(* What is appended shows at the end of the clipped response, or not.      *)
LEMMA ClipGrows ==
    ASSUME NEW s \in Seq(Toks), NEW t \in Seq(Toks)
    PROVE  IsPrefix(Clip(s), Clip(s \o t))
<1>1. /\ s \o t \in Seq(Toks) /\ Len(s \o t) = Len(s) + Len(t)
      /\ \A i \in 1..Len(s) + Len(t) :
            (s \o t)[i] = IF i <= Len(s) THEN s[i] ELSE t[i - Len(s)]
  BY ConcatProperties
<1> DEFINE u == s \o t
<1>2. Len(s) \in Nat /\ Len(t) \in Nat /\ Len(u) = Len(s) + Len(t)
  BY <1>1
<1>3. \A i \in 1..Len(s) : u[i] = s[i]
  BY <1>1, <1>2
<1> HIDE DEF u
<1>4. u \in Seq(Toks)
  BY <1>1 DEF u
<1>5. /\ Clip(s) \in Seq(Toks) /\ Clip(u) \in Seq(Toks)
      /\ Len(Clip(s)) = IF Len(s) < ResponseLength THEN Len(s) ELSE ResponseLength
      /\ Len(Clip(u)) = IF Len(u) < ResponseLength THEN Len(u) ELSE ResponseLength
      /\ \A i \in 1..Len(Clip(s)) : i \in 1..Len(s) /\ Clip(s)[i] = s[i]
      /\ \A i \in 1..Len(Clip(u)) : i \in 1..Len(u) /\ Clip(u)[i] = u[i]
  BY <1>4, ClipPrefix
<1>6. Len(Clip(s)) <= Len(Clip(u)) /\ Len(Clip(s)) \in Nat /\ Len(Clip(u)) \in Nat
  BY <1>2, <1>5, PartialAssumption
<1>7. \A i \in 1..Len(Clip(s)) : Clip(s)[i] = Clip(u)[i]
  BY <1>3, <1>5, <1>6
<1>8. IsPrefix(Clip(s), Clip(u))
  BY <1>5, <1>6, <1>7, PrefixByIndex
<1> QED BY <1>8 DEF u

LEMMA ClipSame ==
    ASSUME NEW s \in Seq(Toks)
    PROVE  IsPrefix(Clip(s), Clip(s))
<1>1. Clip(s) \in Seq(Toks)
  BY ClipPrefix
<1> QED BY <1>1, PrefixByIndex

-----------------------------------------------------------------------------
(* A loop that runs appends to a response that is not complete, and its    *)
(* step makes no complete response incomplete.                             *)
LEMMA LoopAppends ==
    ASSUME TypeInv, StatusInv, MaskInv, NEW l \in Loops, LoopNext(l)
    PROVE  /\ out[l].status # "completed"
           /\ IsPrefix(Clip(out[l].text), Clip(out'[l].text))
<1>a. /\ out[l].text \in Seq(Toks) /\ reply[l].tokens \in Seq(Toks)
      /\ ToolTokens \in Seq(Toks)
  BY ToolAnswer DEF TypeInv, Outs
<1>1. out[l].status # "completed"
  BY LoopMoves DEF StatusInv, StatusOf
<1> DEFINE o == out[l].text
           n == out'[l].text
           r == reply[l].tokens
<1>2. CASE n = o
  BY <1>1, <1>a, <1>2, ClipSame
<1>3. CASE n = Clip(o)
  BY <1>1, <1>a, <1>3, ClipSame, ClipTwice
<1>4. CASE n = o \o r
  BY <1>1, <1>a, <1>4, ClipGrows
<1>5. CASE n = o \o ToolTokens
  BY <1>1, <1>a, <1>5, ClipGrows
<1>6. CASE n = Clip(o \o r)
  <2>1. o \o r \in Seq(Toks)
    BY <1>a, ConcatProperties
  <2>2. Clip(n) = Clip(o \o r)
    BY <1>6, <2>1, ClipTwice
  <2> QED BY <1>1, <1>a, <2>2, ClipGrows
<1>7. n = o \/ n = Clip(o) \/ n = o \o r \/ n = o \o ToolTokens \/ n = Clip(o \o r)
  BY LoopOutput
<1> QED BY <1>2, <1>3, <1>4, <1>5, <1>6, <1>7

(* However often it is interrupted, a response only grows until it is      *)
(* complete, and then it stays.                                            *)
THEOREM ResponsesImplemented == Spec => KeepsResponses
<1>1. Init => ResponsesKept!Init
  <2> SUFFICES ASSUME Init PROVE ResponsesKept!Init
    OBVIOUS
  <2>1. \A l \in Loops : out[l].text = <<>> /\ out[l].status = "new"
    BY DEF Init, Fresh
  <2>2. <<>> \in Seq(Toks) /\ Len(<<>>) = 0
    BY EmptyTokens
  <2>3. Clip(<<>>) = <<>>
    BY <2>2, ClipEmpty
  <2> QED BY <2>1, <2>3 DEF ResponsesKept!Init
<1>2. Inv /\ [Next]_vars => [ResponsesKept!Next]_(ResponsesKept!vars)
  <2> SUFFICES ASSUME Inv, [Next]_vars
               PROVE  ResponsesKept!Next \/ UNCHANGED ResponsesKept!vars
    OBVIOUS
  <2>0. TypeInv /\ StatusInv /\ MaskInv
    BY DEF Inv
  <2>1. CASE UNCHANGED vars \/ PauseBegin \/ MonitorRecovers \/ ManagerNext \/ Finished
             \/ (\E s \in Samples : Submit(s) \/ Gather(s)) \/ (\E l \in Loops : ServerNext(l))
    <3>1. out' = out
      BY <2>1, ManagerKeeps DEF vars, Submit, Gather, ServerNext, Refuse, Accept, Token, FinishCall
    <3> QED BY <3>1 DEF ResponsesKept!vars
  <2>2. ASSUME NEW l \in Loops, LoopNext(l)
        PROVE  ResponsesKept!Next
    <3> DEFINE T == [m \in Loops |-> Clip(out[m].text)]
               C == {m \in Loops : out[m].status = "completed"}
    <3>1. /\ out[l].status # "completed"
          /\ IsPrefix(Clip(out[l].text), Clip(out'[l].text))
      BY <2>0, <2>2, LoopAppends
    <3>2. \A m \in Loops \ {l} : out'[m] = out[m]
      BY <2>0, <2>2, LoopMoves
    <3>3. l \notin C /\ T[l] = Clip(out[l].text) /\ T'[l] = Clip(out'[l].text)
      BY <3>1
    <3>4. T' = [T EXCEPT ![l] = T'[l]]
      BY <3>2
    <3>5. C' = C \/ C' = C \cup {l}
      <4>1. \A m \in Loops \ {l} : m \in C' <=> m \in C
        BY <3>2
      <4> QED BY <3>1, <4>1
    <3>6. ResponsesKept!IsPrefix(T[l], T'[l])
      BY <3>1, <3>3 DEF IsPrefix, ResponsesKept!IsPrefix
    <3>7. ResponsesKept!Extend(l)
      BY <3>3, <3>4, <3>6 DEF ResponsesKept!Extend
    <3>8. ResponsesKept!Write(l) \/ ResponsesKept!Complete(l)
      BY <3>5, <3>7 DEF ResponsesKept!Write, ResponsesKept!Complete
    <3> QED BY <3>8 DEF ResponsesKept!Next
  <2> QED BY <2>1, <2>2 DEF Next
<1> QED BY <1>1, <1>2, Invariant, PTL DEF Spec, KeepsResponses, ResponsesKept!Spec

-----------------------------------------------------------------------------
(* Turns and tool calls                                                    *)

(* Nothing follows an end of text, and only the tools' answer a call.      *)
Proper(seq) == \A i \in 1..Len(seq) - 1 :
    /\ seq[i][1] # "eos"
    /\ seq[i][1] = "close" => seq[i + 1][1] = "tool"

(* The turn at the end of seq goes on; the last turn of seq did not end    *)
(* the response.                                                           *)
Goes(seq)    == Proper(seq) /\ (Len(seq) > 0 => seq[Len(seq)][1] \notin {"eos", "close"})
Unended(seq) == \A i \in 1..Len(seq) : seq[i][1] # "eos"

(* A request goes on with a turn that did not end, in whatever state an    *)
(* interruption left its loop; the tools are called at the end of a turn.  *)
TurnOf(l) ==
    /\ Proper(out[l].text)
    /\ agent = "single_turn" => out[l].state = "PENDING"
    /\ pc[l] \in {"call", "wait", "reply"} => out[l].state \in {"PENDING", "GENERATING"}
    /\ pc[l] = "tools" => out[l].state = "PROCESSING_TOOLS"
    /\ out[l].status # "completed" /\ out[l].state \in {"PENDING", "GENERATING"}
          => Goes(out[l].text)
    /\ out[l].state = "PROCESSING_TOOLS" =>
          Len(out[l].text) < ResponseLength /\ Unended(out[l].text)
    /\ pc[l] = "wait" =>
          /\ Proper(out[l].text \o Tokens(req_output[l]))
          /\ l \in generating => Goes(out[l].text \o Tokens(req_output[l]))
    /\ pc[l] = "reply" =>
          /\ Proper(out[l].text \o reply[l].tokens)
          /\ reply[l].is_cancel => Goes(out[l].text \o reply[l].tokens)
TurnInv == \A l \in Loops : TurnOf(l)

(* The calls that ran, and the one that is due, are calls of the response  *)
(* as it will be cut.                                                      *)
Due(state, label) == IF state = "PROCESSING_TOOLS" /\ label # "tools" THEN 1 ELSE 0
RanOf(l) == out[l].ran + Due(out[l].state, pc[l]) <= Calls(Clip(out[l].text))
RanInv   == \A l \in Loops : RanOf(l)

LEMMA EmptyTail ==
    ASSUME NEW s \in Seq(Toks)
    PROVE  s \o <<>> = s
BY ConcatProperties

LEMMA AppendTail ==
    ASSUME NEW s \in Seq(Toks), NEW t \in Seq(Toks), NEW x \in Toks
    PROVE  /\ s \o Append(t, x) \in Seq(Toks) /\ s \o t \in Seq(Toks)
           /\ s \o Append(t, x) = Append(s \o t, x)
BY ConcatProperties, AppendProperties

(* A turn that goes on may get one more token.                             *)
LEMMA TurnGrows ==
    ASSUME NEW s \in Seq(Toks), NEW x \in Toks, Goes(s)
    PROVE  /\ Proper(Append(s, x))
           /\ x[1] \notin {"eos", "close"} => Goes(Append(s, x))
<1> DEFINE u == Append(s, x)
<1>1. /\ Len(u) = Len(s) + 1 /\ u[Len(s) + 1] = x
      /\ \A i \in 1..Len(s) : u[i] = s[i]
  BY AppendProperties
<1>2. Len(s) \in Nat
  OBVIOUS
<1> HIDE DEF u
<1>3. ASSUME NEW i \in 1..Len(s)
      PROVE  u[i][1] # "eos" /\ (u[i][1] = "close" => u[i + 1][1] = "tool")
  <2>1. CASE i = Len(s)
    BY <1>1, <1>2, <2>1 DEF Goes
  <2>2. CASE i # Len(s)
    <3>1. i \in 1..Len(s) - 1 /\ i + 1 \in 1..Len(s)
      BY <1>2, <2>2
    <3> QED BY <1>1, <3>1 DEF Goes, Proper
  <2> QED BY <2>1, <2>2
<1>4. Len(u) - 1 = Len(s)
  BY <1>1, <1>2
<1>5. Proper(u)
  BY <1>3, <1>4 DEF Proper
<1>6. x[1] \notin {"eos", "close"} => Goes(u)
  BY <1>1, <1>5 DEF Goes
<1> QED BY <1>5, <1>6 DEF u

(* The tools answer a turn that did not end the response.                  *)
LEMMA TurnAnswered ==
    ASSUME NEW s \in Seq(Toks), Proper(s), Unended(s)
    PROVE  Goes(s \o ToolTokens)
<1>1. ToolTokens = [i \in 1..ToolLength |-> <<"tool", 0>>] /\ ToolLength \in Nat \ {0}
  BY PartialAssumption DEF ToolTokens
<1>2. ToolTokens \in Seq(Toks) /\ Len(ToolTokens) = ToolLength
  BY <1>1, ToolAnswer
<1> DEFINE u == s \o ToolTokens
<1>3. /\ Len(u) = Len(s) + ToolLength
      /\ \A i \in 1..Len(s) + ToolLength :
            u[i] = IF i <= Len(s) THEN s[i] ELSE ToolTokens[i - Len(s)]
  BY <1>2, ConcatProperties
<1>4. Len(s) \in Nat
  OBVIOUS
<1> HIDE DEF u
<1>5. \A i \in 1..Len(s) : u[i] = s[i]
  BY <1>1, <1>3, <1>4
<1>6. ASSUME NEW i \in 1..Len(s) + ToolLength, i > Len(s)
      PROVE  u[i][1] = "tool"
  <2>1. i - Len(s) \in 1..ToolLength /\ u[i] = ToolTokens[i - Len(s)]
    BY <1>1, <1>3, <1>4, <1>6
  <2> QED BY <1>1, <2>1
<1>7. ASSUME NEW i \in 1..Len(u) - 1
      PROVE  u[i][1] # "eos" /\ (u[i][1] = "close" => u[i + 1][1] = "tool")
  <2>1. i \in 1..Len(s) + ToolLength /\ i + 1 \in 1..Len(s) + ToolLength
    BY <1>1, <1>3, <1>4
  <2>2. CASE i > Len(s)
    BY <1>6, <2>1, <2>2
  <2>3. CASE i <= Len(s)
    <3>1. i \in 1..Len(s)
      BY <2>1, <2>3, <1>4
    <3>2. u[i][1] # "eos"
      BY <1>5, <3>1 DEF Unended
    <3>3. CASE i = Len(s)
      <4>1. i + 1 > Len(s)
        BY <1>4, <3>3
      <4> QED BY <1>6, <2>1, <3>2, <4>1
    <3>4. CASE i # Len(s)
      <4>1. i \in 1..Len(s) - 1 /\ i + 1 \in 1..Len(s)
        BY <1>4, <3>1, <3>4
      <4> QED BY <1>5, <3>2, <4>1 DEF Proper
    <3> QED BY <3>3, <3>4
  <2> QED BY <1>4, <2>1, <2>2, <2>3
<1>8. Len(u) \in 1..Len(s) + ToolLength /\ Len(u) > Len(s)
  BY <1>1, <1>3, <1>4
<1>9. u[Len(u)][1] = "tool"
  BY <1>6, <1>8
<1> QED BY <1>7, <1>9 DEF Goes, Proper, u

LEMMA ProperClip ==
    ASSUME NEW s \in Seq(Toks), Proper(s)
    PROVE  Proper(Clip(s))
<1>1. /\ Clip(s) \in Seq(Toks) /\ Len(Clip(s)) <= Len(s)
      /\ \A i \in 1..Len(Clip(s)) : Clip(s)[i] = s[i]
  BY ClipPrefix, PartialAssumption
<1>2. Len(s) \in Nat /\ Len(Clip(s)) \in Nat
  BY <1>1
<1>3. ASSUME NEW i \in 1..Len(Clip(s)) - 1
      PROVE  i \in 1..Len(s) - 1 /\ Clip(s)[i] = s[i] /\ Clip(s)[i + 1] = s[i + 1]
  <2>1. i \in 1..Len(Clip(s)) /\ i + 1 \in 1..Len(Clip(s)) /\ i \in 1..Len(s) - 1
    BY <1>1, <1>2
  <2> QED BY <1>1, <2>1
<1> QED BY <1>3 DEF Proper

(* A short response is not cut.                                            *)
LEMMA ClipShort ==
    ASSUME NEW s \in Seq(Toks), Len(s) < ResponseLength
    PROVE  Clip(s) = s
BY ClipPrefix, SeqEqual

LEMMA PrefixIndexed ==
    ASSUME NEW s \in Seq(Toks), NEW t \in Seq(Toks), IsPrefix(s, t)
    PROVE  Len(s) <= Len(t) /\ \A i \in 1..Len(s) : s[i] = t[i]
<1>1. Len(s) \in Nat /\ Len(t) \in Nat
  OBVIOUS
<1>2. Len(s) <= Len(t) /\ SubSeq(s, 1, Len(s)) = SubSeq(t, 1, Len(s))
  BY DEF IsPrefix
<1>3. /\ SubSeq(s, 1, Len(s)) = [i \in 1..Len(s) |-> s[1 + i - 1]]
      /\ SubSeq(t, 1, Len(s)) = [i \in 1..Len(s) |-> t[1 + i - 1]]
  BY <1>1, <1>2, SubSeqProperties
<1>4. ASSUME NEW i \in 1..Len(s) PROVE s[i] = t[i]
  <2>1. SubSeq(s, 1, Len(s))[i] = s[1 + i - 1] /\ SubSeq(t, 1, Len(s))[i] = t[1 + i - 1]
    BY <1>3
  <2>2. 1 + i - 1 = i
    BY <1>1
  <2> QED BY <1>2, <2>1, <2>2
<1> QED BY <1>2, <1>4

(* The calls of a prefix are calls of the whole.                           *)
LEMMA CallsGrow ==
    ASSUME NEW s \in Seq(Toks), NEW t \in Seq(Toks), IsPrefix(s, t)
    PROVE  Calls(s) <= Calls(t) /\ Calls(s) \in Nat /\ Calls(t) \in Nat
<1> DEFINE A == {i \in 1..Len(s) : s[i][1] = "close"}
           B == {i \in 1..Len(t) : t[i][1] = "close"}
<1>1. Len(s) \in Nat /\ Len(t) \in Nat
  OBVIOUS
<1>2. Len(s) <= Len(t) /\ \A i \in 1..Len(s) : s[i] = t[i]
  BY <1>1, PrefixIndexed
<1>3. A \subseteq B
  BY <1>1, <1>2
<1>4. IsFiniteSet(1..Len(t))
  BY <1>1, FS_Interval
<1>5. IsFiniteSet(B)
  BY <1>4, FS_Subset
<1>6. IsFiniteSet(A) /\ Cardinality(A) <= Cardinality(B)
  BY <1>3, <1>5, FS_Subset
<1>7. Cardinality(A) \in Nat /\ Cardinality(B) \in Nat
  BY <1>5, <1>6, FS_CardinalityType
<1> QED BY <1>6, <1>7 DEF Calls

(* A call in a reply is the end of it, and one call more.                  *)
LEMMA CallEnds ==
    ASSUME NEW s \in Seq(Toks), NEW t \in Seq(Toks),
           Proper(s \o t), Generated(t), HasCall(t)
    PROVE  Unended(s \o t) /\ Calls(s \o t) >= Calls(s) + 1
<1> DEFINE u == s \o t
<1>1. /\ u \in Seq(Toks) /\ Len(u) = Len(s) + Len(t)
      /\ \A i \in 1..Len(s) + Len(t) :
            u[i] = IF i <= Len(s) THEN s[i] ELSE t[i - Len(s)]
  BY ConcatProperties
<1>2. Len(s) \in Nat /\ Len(t) \in Nat
  OBVIOUS
<1>p. Proper(u)
  OBVIOUS
<1> HIDE DEF u
<1>a. Len(u) = Len(s) + Len(t)
  BY <1>1
<1>3. PICK i \in 1..Len(t) - 1 : t[i + 1][1] = "close"
  BY DEF HasCall
<1> DEFINE k == Len(s) + i + 1
<1>4. k \in 1..Len(u) /\ k > Len(s) /\ k - Len(s) = i + 1 /\ i + 1 \in 1..Len(t)
  BY <1>2, <1>a
<1>5. u[k] = t[i + 1]
  BY <1>1, <1>2, <1>4
<1>6. u[k][1] = "close"
  BY <1>3, <1>5
<1> HIDE DEF k
<1>7. k = Len(u)
  <2> SUFFICES ASSUME k # Len(u) PROVE FALSE
    OBVIOUS
  <2>1. k \in 1..Len(u) - 1 /\ k + 1 \in 1..Len(u) /\ k + 1 > Len(s)
        /\ k + 1 - Len(s) \in 1..Len(t)
    BY <1>2, <1>4, <1>a
  <2>2. u[k + 1][1] = "tool"
    BY <1>p, <1>6, <2>1 DEF Proper
  <2>3. u[k + 1] = t[k + 1 - Len(s)]
    BY <1>1, <1>2, <2>1
  <2> QED BY <2>1, <2>2, <2>3 DEF Generated
<1>8. Unended(u)
  <2>1. ASSUME NEW j \in 1..Len(u) PROVE u[j][1] # "eos"
    <3>1. CASE j = Len(u)
      BY <1>6, <1>7, <3>1
    <3>2. CASE j # Len(u)
      <4>1. j \in 1..Len(u) - 1
        BY <1>2, <1>a, <3>2
      <4> QED BY <1>p, <4>1 DEF Proper
    <3> QED BY <3>1, <3>2
  <2> QED BY <2>1 DEF Unended
<1> DEFINE A == {j \in 1..Len(s) : s[j][1] = "close"}
           B == {j \in 1..Len(u) : u[j][1] = "close"}
<1>9. \A j \in 1..Len(s) : j \in 1..Len(u) /\ u[j] = s[j] /\ j # k
  BY <1>1, <1>2, <1>4
<1>10. A \cup {k} \subseteq B /\ k \notin A
  BY <1>4, <1>6, <1>9
<1>11. IsFiniteSet(1..Len(u)) /\ IsFiniteSet(1..Len(s))
  BY <1>1, <1>2, FS_Interval
<1>12. IsFiniteSet(B) /\ IsFiniteSet(A)
  BY <1>11, FS_Subset
<1>13. Cardinality(A \cup {k}) = Cardinality(A) + 1
  BY <1>10, <1>12, FS_AddElement
<1>14. Cardinality(A \cup {k}) <= Cardinality(B)
  BY <1>10, <1>12, FS_Subset
<1>15. Calls(u) >= Calls(s) + 1
  <2>1. Calls(u) = Cardinality(B) /\ Calls(s) = Cardinality(A)
    BY DEF Calls
  <2>2. Cardinality(A) \in Nat /\ Cardinality(B) \in Nat
    BY <1>12, FS_CardinalityType
  <2> QED BY <1>13, <1>14, <2>1, <2>2
<1> QED BY <1>8, <1>15 DEF u

LEMMA TurnInit == Init => TurnInv /\ RanInv
<1> SUFFICES ASSUME Init PROVE TurnInv /\ RanInv
  OBVIOUS
<1>1. \A l \in Loops : /\ out[l].text = <<>> /\ out[l].state = "PENDING" /\ out[l].ran = 0
                        /\ pc[l] = "idle"
  BY DEF Init, Fresh
<1>2. Len(<<>>) = 0 /\ <<>> \in Seq(Toks)
  BY EmptyTokens
<1>3. Proper(<<>>) /\ Goes(<<>>)
  BY <1>2 DEF Proper, Goes
<1>4. Clip(<<>>) = <<>>
  BY <1>2, ClipEmpty
<1>5. Calls(<<>>) \in Nat
  <2>1. IsPrefix(<<>>, <<>>)
    BY <1>2, <1>4, ClipSame
  <2> QED BY <1>2, <2>1, CallsGrow
<1> QED BY <1>1, <1>3, <1>4, <1>5 DEF TurnInv, TurnOf, RanInv, RanOf, Due

LEMMA NoneApart ==
    ASSUME NEW s \in Seq(Toks)
    PROVE  s # None
<1> SUFFICES ASSUME s = None PROVE FALSE
  OBVIOUS
<1>1. Len(s) = 1 /\ s[1] = <<"none", 0>>
  BY DEF None
<1>2. s[1] \in Toks
  BY <1>1
<1>3. "none" \in Kinds
  BY <1>1, <1>2 DEF Toks
<1> QED BY <1>3 DEF Kinds

(* What a server does to the loop it generates for.                        *)
LEMMA ServerTurn ==
    ASSUME TypeInv, QuietInv, StatusInv, TurnInv, NEW l \in Loops, ServerNext(l)
    PROVE  TurnOf(l)'
<1> DEFINE text == out[l].text
           o    == Tokens(req_output[l])
<1>0. /\ TurnOf(l) /\ StatusOf(l) /\ text \in Seq(Toks) /\ o \in Seq(Toks)
      /\ UNCHANGED <<agent, out>>
  <2>1. text \in Seq(Toks) /\ o \in Seq(Toks)
    BY TokensType DEF TypeInv, Outs
  <2>2. UNCHANGED <<agent, out>>
    BY DEF ServerNext, Refuse, Accept, Token, FinishCall
  <2> QED BY <2>1, <2>2 DEF TurnInv, StatusInv
<1>a. ASSUME pc[l] = "call"
      PROVE  Goes(text \o <<>>) /\ Proper(text \o <<>>)
  <2>1. out[l].status # "completed" /\ out[l].state \in {"PENDING", "GENERATING"}
    BY <1>0, <1>a DEF TurnOf, StatusOf
  <2>2. text \o <<>> = text
    BY <1>0, EmptyTail
  <2>3. Goes(text)
    BY <1>0, <2>1 DEF TurnOf
  <2> QED BY <2>2, <2>3 DEF Goes
<1>1. CASE Refuse(l)
  <2>1. /\ pc[l] = "call" /\ pc'[l] = "reply"
        /\ reply'[l].tokens = <<>> /\ reply'[l].is_cancel
    BY <1>1 DEF Refuse, Return, Goto, TypeInv
  <2>2. out[l].state \in {"PENDING", "GENERATING"}
    BY <1>0, <2>1 DEF TurnOf
  <2> QED BY <1>0, <1>a, <2>1, <2>2 DEF TurnOf
<1>2. CASE Accept(l)
  <2>1. /\ pc[l] = "call" /\ pc'[l] = "wait" /\ req_output'[l] = None
    BY <1>2 DEF Accept, Goto, TypeInv
  <2>2. out[l].state \in {"PENDING", "GENERATING"}
    BY <1>0, <2>1 DEF TurnOf
  <2>3. Tokens(req_output'[l]) = <<>>
    BY <2>1 DEF Tokens
  <2> QED BY <1>0, <1>a, <2>1, <2>2, <2>3 DEF TurnOf
<1>3. CASE Token(l)
  <2>1. l \in generating /\ pc' = pc /\ reply' = reply /\ pc[l] = "wait"
    BY <1>3 DEF Token, QuietInv
  <2>2. PICK k \in {"text", "open", "close", "eos"} :
           /\ req_output' = [req_output EXCEPT ![l] = Append(o, <<k, param_version>>)]
           /\ k \in {"close", "eos"} => generating' = generating \ {l}
    BY <1>3 DEF Token
  <2> DEFINE x == <<k, param_version>>
  <2>3. x \in Toks /\ x[1] = k
    BY DEF Toks, Kinds, TypeInv
  <2>4. req_output'[l] = Append(o, x)
    BY <2>2 DEF TypeInv
  <2> HIDE DEF x
  <2>5. Append(o, x) \in Seq(Toks) /\ Len(Append(o, x)) > 0 /\ Append(o, x)[Len(o) + 1] = x
    BY <1>0, <2>3, AppendProperties
  <2>6. Goes(text \o o)
    BY <1>0, <2>1 DEF TurnOf
  <2>7. text \o o \in Seq(Toks) /\ text \o Append(o, x) = Append(text \o o, x)
    BY <1>0, <2>3, AppendTail
  <2>8. /\ Proper(text \o Append(o, x))
        /\ k \notin {"eos", "close"} => Goes(text \o Append(o, x))
    BY <2>3, <2>6, <2>7, TurnGrows
  <2>9. Tokens(req_output'[l]) = Append(o, x)
    BY <2>4, <2>5, NoneApart DEF Tokens
  <2> HIDE DEF text, o
  <2>10. l \in generating' => k \notin {"eos", "close"}
    BY <2>2
  <2>11. /\ Proper(text \o Tokens(req_output'[l]))
         /\ l \in generating' => Goes(text \o Tokens(req_output'[l]))
    BY <2>8, <2>9, <2>10
  <2>12. /\ pc'[l] = "wait" /\ Proper(text)
         /\ agent = "single_turn" => out[l].state = "PENDING"
         /\ out[l].state \in {"PENDING", "GENERATING"}
         /\ out[l].status # "completed" => Goes(text)
    BY <1>0, <2>1 DEF TurnOf, text
  <2> QED BY <1>0, <2>11, <2>12 DEF TurnOf, text
<1>4. CASE FinishCall(l)
  <2>1. /\ pc[l] = "wait" /\ pc'[l] = "reply"
        /\ reply'[l].tokens = o
        /\ reply'[l].is_cancel = (req_output[l] = None \/ l \in generating)
    BY <1>4 DEF FinishCall, Return, Goto, WasCancelled, TypeInv
  <2>2. /\ out[l].state \in {"PENDING", "GENERATING"} /\ out[l].status # "completed"
        /\ Proper(text \o o) /\ (l \in generating => Goes(text \o o))
        /\ Goes(text)
    BY <1>0, <2>1 DEF TurnOf, StatusOf
  <2>3. req_output[l] = None => o = <<>>
    BY DEF Tokens
  <2>4. req_output[l] = None => Goes(text \o o)
    BY <1>0, <2>2, <2>3, EmptyTail
  <2> HIDE DEF o, text
  <2>5. reply'[l].is_cancel => Goes(text \o o)
    BY <2>1, <2>2, <2>4
  <2>6. /\ Proper(text \o reply'[l].tokens)
        /\ reply'[l].is_cancel => Goes(text \o reply'[l].tokens)
    BY <2>1, <2>2, <2>5
  <2>7. /\ Proper(out[l].text) /\ Goes(out[l].text)
        /\ agent = "single_turn" => out[l].state = "PENDING"
        /\ out[l].state \in {"PENDING", "GENERATING"}
    BY <1>0, <2>1, <2>2 DEF TurnOf, text
  <2> QED BY <1>0, <2>1, <2>6, <2>7 DEF TurnOf, text
<1> QED BY <1>1, <1>2, <1>3, <1>4 DEF ServerNext

(* A loop's own step. The calls of what is kept only grow, and a call that *)
(* becomes due is a new one.                                               *)
LEMMA LoopTurn ==
    ASSUME TypeInv, StatusInv, VersionInv, MaskInv, TurnInv, RanInv,
           NEW l \in Loops, LoopNext(l)
    PROVE  TurnOf(l)' /\ RanOf(l)'
<1> DEFINE o == out[l]
           n == out'[l]
           r == reply[l].tokens
           c == Calls(Clip(o.text))
           d == Calls(Clip(n.text))
<1>0. /\ TurnOf(l) /\ StatusOf(l) /\ RanOf(l)
      /\ o.text \in Seq(Toks) /\ o.mask \in Seq({0, 1}) /\ Len(o.mask) = Len(o.text)
      /\ o.ran \in Nat /\ r \in Seq(Toks) /\ agent' = agent
      /\ pc[l] = "reply" => Generated(r)
  <2>1. agent' = agent
    BY LoopMoves
  <2>2. pc[l] = "reply" => Generated(r)
    BY DEF VersionInv, RequestOf
  <2> QED BY <2>1, <2>2 DEF TurnInv, StatusInv, RanInv, TypeInv, Outs, MaskInv, Matches
<1>a. n.text \in Seq(Toks)
  <2>1. o.text \o r \in Seq(Toks) /\ o.text \o ToolTokens \in Seq(Toks)
    BY <1>0, ToolAnswer, ConcatProperties
  <2>2. Clip(o.text) \in Seq(Toks) /\ Clip(o.text \o r) \in Seq(Toks)
    BY <1>0, <2>1, ClipPrefix
  <2> QED BY <1>0, <2>1, <2>2, LoopOutput
<1>b. c <= d /\ c \in Nat /\ d \in Nat
  <2>1. Clip(o.text) \in Seq(Toks) /\ Clip(n.text) \in Seq(Toks)
    BY <1>0, <1>a, ClipPrefix
  <2>2. IsPrefix(Clip(o.text), Clip(n.text))
    BY LoopAppends
  <2> QED BY <2>1, <2>2, CallsGrow
<1>c. ASSUME n.ran = o.ran, Due(n.state, pc'[l]) <= Due(o.state, pc[l])
      PROVE  RanOf(l)'
  <2>1. o.ran + Due(o.state, pc[l]) <= c
    BY <1>0 DEF RanOf
  <2>2. Due(n.state, pc'[l]) \in Nat /\ Due(o.state, pc[l]) \in Nat
    BY DEF Due
  <2> HIDE DEF c, d
  <2>3. n.ran + Due(n.state, pc'[l]) <= d
    BY <1>0, <1>b, <1>c, <2>1, <2>2
  <2> QED BY <2>3 DEF RanOf, d
<1>1. CASE BeginSingle(l) \/ BeginTool(l)
  <2>1. /\ UNCHANGED <<out[l].text, out[l].state, out[l].ran, out[l].status>>
        /\ pc[l] = "begin"
        /\ \/ pc'[l] = "call" /\ agent = "single_turn"
           \/ pc'[l] = "turn"
    BY <1>1 DEF BeginSingle, BeginTool, Choose, Goto, TypeInv, Outs
  <2>2. TurnOf(l)'
    BY <1>0, <2>1 DEF TurnOf
  <2>3. RanOf(l)'
    BY <1>c, <2>1 DEF Due
  <2> QED BY <2>2, <2>3
<1>2. CASE EndSingle(l)
  <2> DEFINE u == o.text \o r
  <2>1. /\ pc[l] = "reply" /\ pc'[l] = "returned" /\ agent = "single_turn"
        /\ n.text = Clip(u) /\ UNCHANGED <<out[l].state, out[l].ran>>
        /\ n.status = IF reply[l].is_cancel /\ Len(u) < ResponseLength
                        THEN "cancelled" ELSE "completed"
    BY <1>2 DEF EndSingle, Resumed, Goto, TypeInv, Outs
  <2>2. /\ Proper(u) /\ (reply[l].is_cancel => Goes(u))
        /\ o.state = "PENDING"
    BY <1>0, <2>1 DEF TurnOf
  <2>3. u \in Seq(Toks)
    BY <1>0, ConcatProperties
  <2> HIDE DEF u
  <2>4. Proper(Clip(u))
    BY <2>2, <2>3, ProperClip
  <2>5. n.status # "completed" => Goes(Clip(u))
    BY <2>1, <2>2, <2>3, ClipShort
  <2>6. TurnOf(l)'
    BY <1>0, <2>1, <2>2, <2>4, <2>5 DEF TurnOf
  <2>7. RanOf(l)'
    BY <1>c, <2>1, <2>2 DEF Due
  <2> QED BY <2>6, <2>7
<1>3. CASE CancelledOutput(l)
  <2>1. /\ UNCHANGED <<out[l].text, out[l].state, out[l].ran>>
        /\ pc[l] = "turn" /\ pc'[l] = "returned"
    BY <1>3 DEF CancelledOutput, Goto, TypeInv, Outs
  <2>2. o.status # "completed"
    BY <1>0, <2>1 DEF StatusOf
  <2>3. TurnOf(l)'
    BY <1>0, <2>1, <2>2 DEF TurnOf
  <2>4. RanOf(l)'
    BY <1>c, <2>1 DEF Due
  <2> QED BY <2>3, <2>4
<1>4. CASE Pending(l)
  <2>1. /\ UNCHANGED <<out[l].text, out[l].ran, out[l].status>>
        /\ o.state = "PENDING" /\ n.state = "GENERATING"
        /\ pc[l] = "turn" /\ pc'[l] = "turn"
    BY <1>4 DEF Pending, TypeInv, Outs
  <2>2. o.status # "completed" /\ agent # "single_turn"
    BY <1>0, <2>1 DEF StatusOf
  <2>3. TurnOf(l)'
    BY <1>0, <2>1, <2>2 DEF TurnOf
  <2>4. RanOf(l)'
    BY <1>c, <2>1 DEF Due
  <2> QED BY <2>3, <2>4
<1>5. CASE Generate(l)
  <2>1. /\ UNCHANGED out
        /\ o.state = "GENERATING" /\ pc[l] = "turn" /\ pc'[l] = "call"
    BY <1>5 DEF Generate, Choose, Goto, TypeInv
  <2>2. TurnOf(l)'
    BY <1>0, <2>1 DEF TurnOf
  <2>3. RanOf(l)'
    BY <1>c, <2>1 DEF Due
  <2> QED BY <2>2, <2>3
<1>6. CASE EndGenerate(l)
  <2> DEFINE u == o.text \o r
             m == Masked(l)
  <2>1. out' = [out EXCEPT ![l].text = u, ![l].mask = m, ![l].state = NextState(l, m)]
    BY <1>6 DEF EndGenerate
  <2>2. pc[l] = "reply" /\ pc'[l] = "turn" /\ agent = "tool"
    BY <1>6 DEF EndGenerate, Goto, TypeInv
  <2>3. u \in Seq(Toks) /\ Len(m) = Len(u)
    <3>1. Ones(r) \in Seq({0, 1}) /\ Len(Ones(r)) = Len(r)
      BY <1>0, OnesType
    <3>4. m = o.mask \o Ones(r)
      BY DEF Masked
    <3>5. Len(o.mask \o Ones(r)) = Len(o.mask) + Len(Ones(r))
      BY <1>0, <3>1, ConcatProperties
    <3>2. Len(m) = Len(o.mask) + Len(r)
      BY <3>1, <3>4, <3>5
    <3>3. u \in Seq(Toks) /\ Len(u) = Len(o.text) + Len(r)
      BY <1>0, ConcatProperties
    <3> QED BY <1>0, <3>2, <3>3
  <2>4. /\ Proper(u) /\ (reply[l].is_cancel => Goes(u))
        /\ o.state \in {"PENDING", "GENERATING"}
    BY <1>0, <2>2 DEF TurnOf
  <2>5. HasCall(r) => Unended(u) /\ Calls(u) >= Calls(o.text) + 1
    BY <1>0, <2>2, <2>4, CallEnds
  <2>s. /\ NextState(l, m) \in {"GENERATING", "PROCESSING_TOOLS", "TERMINATED"}
        /\ NextState(l, m) = "GENERATING" => reply[l].is_cancel
        /\ NextState(l, m) = "PROCESSING_TOOLS" => Len(u) < ResponseLength /\ HasCall(r)
    <3>4. Len(u) \in Nat
      <4> HIDE DEF m, u
      <4> QED BY <2>3
    <3>1. Len(m) \in Nat
      <4> HIDE DEF m, u
      <4> QED BY <2>3, <3>4
    <3> HIDE DEF m, u
    <3>2. CASE Len(m) >= ResponseLength
      <4>1. ~(Len(m) < ResponseLength)
        BY <3>1, <3>2, PartialAssumption
      <4>2. NextState(l, m) = "TERMINATED"
        BY <3>2, <4>1 DEF NextState
      <4> QED BY <4>2
    <3>3. CASE ~(Len(m) >= ResponseLength)
      <4>1. Len(m) < ResponseLength
        BY <3>1, <3>3, PartialAssumption
      <4>2. CASE reply[l].is_cancel
        BY <3>3, <4>1, <4>2 DEF NextState
      <4>3. CASE ~reply[l].is_cancel
        <5>1. NextState(l, m) = IF HasCall(r) THEN "PROCESSING_TOOLS" ELSE "TERMINATED"
          BY <3>3, <4>1, <4>3 DEF NextState
        <5> QED BY <2>3, <4>1, <5>1
      <4> QED BY <4>2, <4>3
    <3> QED BY <3>2, <3>3
  <2> DEFINE s == NextState(l, m)
  <2> HIDE DEF u, m, s
  <2>6. /\ n.text = u /\ n.state = s
        /\ UNCHANGED <<out[l].ran, out[l].status>>
    BY <2>1 DEF s, TypeInv, Outs
  <2>7. /\ s \in {"GENERATING", "PROCESSING_TOOLS", "TERMINATED"}
        /\ s = "GENERATING" => Goes(u)
        /\ s = "PROCESSING_TOOLS" => Len(u) < ResponseLength /\ HasCall(r)
    BY <2>s, <2>4 DEF s
  <2>8. TurnOf(l)'
    BY <1>0, <2>2, <2>4, <2>5, <2>6, <2>7 DEF TurnOf
  <2>9. CASE s # "PROCESSING_TOOLS"
    <3>1. Due(n.state, pc'[l]) = 0 /\ Due(o.state, pc[l]) = 0
      BY <2>4, <2>6, <2>9 DEF Due
    <3>2. RanOf(l)'
      BY <1>c, <2>6, <3>1
    <3> QED BY <2>8, <3>2
  <2>10. CASE s = "PROCESSING_TOOLS"
    <3>1. Len(u) < ResponseLength /\ Len(o.text) < ResponseLength
      <4>1. Len(u) = Len(o.text) + Len(r)
        BY <1>0, ConcatProperties DEF u
      <4>2. Len(o.text) \in Nat /\ Len(r) \in Nat
        BY <1>0
      <4>3. Len(u) < ResponseLength
        BY <2>7, <2>10
      <4> HIDE DEF o, r
      <4> QED BY <4>1, <4>2, <4>3, PartialAssumption
    <3>2. Clip(u) = u /\ Clip(o.text) = o.text
      BY <1>0, <2>3, <3>1, ClipShort
    <3>3. d = Calls(u) /\ c = Calls(o.text)
      BY <2>6, <3>2
    <3> HIDE DEF c, d
    <3>4. d >= c + 1
      BY <2>5, <2>7, <2>10, <3>3
    <3>5. o.ran <= c
      <4>1. Due(o.state, pc[l]) = 0
        BY <2>4 DEF Due
      <4> QED BY <1>0, <4>1 DEF RanOf, c
    <3>6. n.ran = o.ran /\ Due(n.state, pc'[l]) = 1
      BY <2>2, <2>6, <2>10 DEF Due
    <3>7. n.ran + Due(n.state, pc'[l]) <= d
      BY <1>0, <1>b, <3>4, <3>5, <3>6
    <3> QED BY <2>8, <3>7 DEF RanOf, d
  <2> QED BY <2>9, <2>10
<1>7. CASE CallTools(l)
  <2>1. /\ UNCHANGED <<out[l].text, out[l].state, out[l].status>>
        /\ n.ran = o.ran + 1 /\ o.state = "PROCESSING_TOOLS"
        /\ pc[l] = "turn" /\ pc'[l] = "tools"
    BY <1>7 DEF CallTools, Goto, TypeInv, Outs
  <2>2. TurnOf(l)'
    BY <1>0, <2>1 DEF TurnOf
  <2>3. Due(o.state, pc[l]) = 1 /\ Due(n.state, pc'[l]) = 0
    BY <2>1 DEF Due
  <2>4. o.ran + 1 <= c
    BY <1>0, <2>3 DEF RanOf
  <2> HIDE DEF c, d
  <2>5. n.ran + Due(n.state, pc'[l]) <= d
    BY <1>0, <1>b, <2>1, <2>3, <2>4
  <2> QED BY <2>2, <2>5 DEF RanOf, d
<1>8. CASE EndTools(l)
  <2>1. pc[l] = "tools" /\ pc'[l] = "turn"
    BY <1>8 DEF EndTools, Goto, TypeInv
  <2>2. Due(o.state, pc[l]) = 0 /\ o.state = "PROCESSING_TOOLS" /\ agent # "single_turn"
    BY <1>0, <2>1 DEF Due, TurnOf
  <2>3. CASE Len(o.mask) + ToolLength >= ResponseLength
    <3>1. /\ n.state = "TERMINATED"
          /\ UNCHANGED <<out[l].text, out[l].ran, out[l].status>>
      BY <1>8, <2>3 DEF EndTools, TypeInv, Outs
    <3>2. TurnOf(l)'
      BY <1>0, <2>1, <2>2, <3>1 DEF TurnOf
    <3>3. RanOf(l)'
      BY <1>c, <2>2, <3>1 DEF Due
    <3> QED BY <3>2, <3>3
  <2>4. CASE ~(Len(o.mask) + ToolLength >= ResponseLength)
    <3> DEFINE u == o.text \o ToolTokens
    <3>1. out' = [out EXCEPT ![l].state = "GENERATING", ![l].text = u,
                             ![l].mask = o.mask \o [i \in 1..ToolLength |-> 0]]
      BY <1>8, <2>4 DEF EndTools, AfterTools
    <3>2. Goes(u)
      BY <1>0, <2>2, TurnAnswered DEF TurnOf
    <3> HIDE DEF u
    <3>3. /\ n.state = "GENERATING" /\ n.text = u
          /\ UNCHANGED <<out[l].ran, out[l].status>>
      BY <3>1 DEF TypeInv, Outs
    <3>4. TurnOf(l)'
      BY <1>0, <2>1, <2>2, <3>2, <3>3 DEF TurnOf, Goes
    <3>5. RanOf(l)'
      BY <1>c, <2>2, <3>3 DEF Due
    <3> QED BY <3>4, <3>5
  <2> QED BY <2>3, <2>4
<1>9. CASE CompletedOutput(l)
  <2> DEFINE t == SubSeq(o.text, Len(o.text) - Len(o.mask) + 1, Len(o.text))
  <2>1. out' = [out EXCEPT ![l].text = Clip(t), ![l].mask = Clip(o.mask),
                           ![l].until = sample_version[l[1]], ![l].status = "completed"]
    BY <1>9 DEF CompletedOutput
  <2>2. pc[l] = "turn" /\ pc'[l] = "returned" /\ o.state = "TERMINATED"
    BY <1>9 DEF CompletedOutput, Goto, TypeInv
  <2>3. t = o.text
    BY WholeText
  <2> HIDE DEF t
  <2>4. /\ n.text = Clip(o.text) /\ n.status = "completed"
        /\ UNCHANGED <<out[l].state, out[l].ran>>
    BY <2>1, <2>3 DEF TypeInv, Outs
  <2>5. Proper(Clip(o.text))
    BY <1>0, ProperClip DEF TurnOf
  <2>6. TurnOf(l)'
    BY <1>0, <2>2, <2>4, <2>5 DEF TurnOf
  <2>7. RanOf(l)'
    BY <1>c, <2>2, <2>4 DEF Due
  <2> QED BY <2>6, <2>7
<1> QED BY <1>1, <1>2, <1>3, <1>4, <1>5, <1>6, <1>7, <1>8, <1>9 DEF LoopNext

(* What a step does to the loops it is not about.                          *)
LEMMA TurnFrame ==
    ASSUME NEW l \in Loops, TurnOf(l), RanOf(l),
           UNCHANGED <<agent, out[l], reply[l], req_output[l]>>,
           (pc'[l] = pc[l]) \/ (/\ pc[l] \in {"idle", "returned"}
                               /\ pc'[l] \in {"idle", "begin", "returned"}),
           l \in generating' => l \in generating
    PROVE  TurnOf(l)' /\ RanOf(l)'
<1>1. TurnOf(l)'
  BY DEF TurnOf
<1>2. Due(out'[l].state, pc'[l]) = Due(out[l].state, pc[l])
  BY DEF Due
<1>3. RanOf(l)'
  BY <1>2 DEF RanOf
<1> QED BY <1>1, <1>3

LEMMA TurnStep == Inv /\ TurnInv /\ RanInv /\ [Next]_vars => TurnInv' /\ RanInv'
<1> SUFFICES ASSUME Inv, TurnInv, RanInv, [Next]_vars, NEW m \in Loops
             PROVE  TurnOf(m)' /\ RanOf(m)'
  <2>1. Loops' = Loops
    BY DEF Loops
  <2> QED BY <2>1 DEF TurnInv, RanInv
<1>a. /\ TypeInv /\ QuietInv /\ StatusInv /\ VersionInv /\ MaskInv
      /\ TurnOf(m) /\ RanOf(m)
  BY DEF Inv, TurnInv, RanInv
<1>0. CASE UNCHANGED vars \/ PauseBegin \/ MonitorRecovers \/ ManagerNext \/ Finished
  <2>1. UNCHANGED <<agent, pc, req_output, reply, out, generating>>
    BY <1>0, ManagerKeeps DEF vars, serverVars
  <2> QED BY <1>a, <2>1, TurnFrame
<1>1. ASSUME NEW s \in Samples, Submit(s) PROVE TurnOf(m)' /\ RanOf(m)'
  <2>1. /\ UNCHANGED <<agent, out, reply, req_output, generating>> /\ task[s] # "active"
        /\ pc'[m] = IF m[1] = s THEN Start(m) ELSE pc[m]
    BY <1>1 DEF Submit, serverVars
  <2>2. m[1] = s => pc[m] = "idle"
    BY <1>a, <2>1 DEF QuietInv
  <2> QED BY <1>a, <2>1, <2>2, TurnFrame DEF Start
<1>2. ASSUME NEW s \in Samples, Gather(s) PROVE TurnOf(m)' /\ RanOf(m)'
  <2>1. /\ UNCHANGED <<agent, out, reply, req_output, generating>>
        /\ \A i \in 1..N : pc[<<s, i>>] = "returned"
        /\ pc'[m] = IF m[1] = s THEN "idle" ELSE pc[m]
    BY <1>2 DEF Gather, serverVars
  <2>2. m[1] = s => pc[m] = "returned"
    BY <2>1 DEF Loops
  <2> QED BY <1>a, <2>1, <2>2, TurnFrame
<1>3. ASSUME NEW l \in Loops, ServerNext(l) PROVE TurnOf(m)' /\ RanOf(m)'
  <2>1. /\ UNCHANGED <<agent, out>>
        /\ \A k \in Loops \ {l} : UNCHANGED <<reply[k], req_output[k], pc[k]>>
        /\ \A k \in Loops \ {l} : k \in generating' => k \in generating
    <3>1. CASE Refuse(l)
      BY <1>a, <3>1 DEF Refuse, Return, Goto, serverVars, TypeInv
    <3>2. CASE Accept(l)
      BY <1>a, <3>2 DEF Accept, Goto, TypeInv
    <3>3. CASE Token(l)
      BY <1>a, <3>3 DEF Token, TypeInv
    <3>4. CASE FinishCall(l)
      BY <1>a, <3>4 DEF FinishCall, Return, Goto, Stop, TypeInv
    <3> QED BY <1>3, <3>1, <3>2, <3>3, <3>4 DEF ServerNext
  <2>2. CASE m # l
    <3>1. /\ UNCHANGED <<agent, out[m], reply[m], req_output[m], pc[m]>>
          /\ m \in generating' => m \in generating
      BY <2>1, <2>2
    <3> QED BY <1>a, <3>1, TurnFrame
  <2>3. CASE m = l
    <3>1. TurnOf(m)'
      BY <1>3, <1>a, <2>3, ServerTurn
    <3>2. pc[m] # "tools" /\ pc'[m] # "tools"
      BY <1>3, <1>a, <2>3 DEF ServerNext, Refuse, Accept, Token, FinishCall, Return, Goto,
                              QuietInv, TypeInv
    <3>3. Due(out'[m].state, pc'[m]) = Due(out[m].state, pc[m])
      BY <2>1, <3>2 DEF Due
    <3>4. RanOf(m)'
      BY <1>a, <2>1, <3>3 DEF RanOf
    <3> QED BY <3>1, <3>4
  <2> QED BY <2>2, <2>3
<1>4. ASSUME NEW l \in Loops, LoopNext(l) PROVE TurnOf(m)' /\ RanOf(m)'
  <2>1. /\ UNCHANGED <<agent, req_output, generating>>
        /\ \E x \in {"call", "turn", "tools", "returned"} : pc' = [pc EXCEPT ![l] = x]
        /\ reply' = reply \/ reply' = [reply EXCEPT ![l] = NoReply]
        /\ \A k \in Loops \ {l} : out'[k] = out[k]
    BY <1>4, <1>a, LoopMoves
  <2>2. CASE m # l
    <3>1. UNCHANGED <<agent, out[m], reply[m], req_output[m], pc[m]>>
      BY <1>a, <2>1, <2>2 DEF TypeInv
    <3> QED BY <1>a, <2>1, <3>1, TurnFrame
  <2>3. CASE m = l
    <3>1. TurnOf(l)' /\ RanOf(l)'
      BY <1>4, <1>a, LoopTurn
    <3> QED BY <2>3, <3>1
  <2> QED BY <2>2, <2>3
<1> QED BY <1>0, <1>1, <1>2, <1>3, <1>4 DEF Next

LEMMA TurnsInvariant == Spec => [](Inv /\ TurnInv /\ RanInv)
<1>1. Init => Inv /\ TurnInv /\ RanInv
  BY InvInit, TurnInit
<1>2. (Inv /\ TurnInv /\ RanInv) /\ [Next]_vars => (Inv /\ TurnInv /\ RanInv)'
  BY InvStep, TurnStep
<1> QED BY <1>1, <1>2, PTL DEF Spec

(* However the pause and the last token of a turn race, what was ended is  *)
(* not continued.                                                          *)
THEOREM EndsAreKept == Spec => []EndsStay
<1>1. TurnInv => EndsStay
  BY DEF TurnInv, TurnOf, Proper, EndsStay
<1> QED BY <1>1, TurnsInvariant, PTL

(* However often a loop is interrupted between a call and its answer, the  *)
(* tools run at most once for each call of the response.                   *)
THEOREM CallsRunAtMostOnce == Spec => []CallsRunOnce
<1>1. Inv /\ RanInv => CallsRunOnce
  <2> SUFFICES ASSUME Inv, RanInv, NEW l \in Loops
               PROVE  out[l].ran <= Calls(out[l].text)
    BY DEF CallsRunOnce
  <2> DEFINE t == out[l].text
  <2>1. t \in Seq(Toks) /\ out[l].ran \in Nat
    BY DEF Inv, TypeInv, Outs
  <2> HIDE DEF t
  <2>2. /\ Clip(t) \in Seq(Toks) /\ Len(Clip(t)) <= Len(t)
        /\ \A i \in 1..Len(Clip(t)) : Clip(t)[i] = t[i]
    BY <2>1, ClipPrefix, PartialAssumption
  <2>3. IsPrefix(Clip(t), t)
    BY <2>1, <2>2, PrefixByIndex
  <2>4. Calls(Clip(t)) <= Calls(t) /\ Calls(Clip(t)) \in Nat /\ Calls(t) \in Nat
    BY <2>1, <2>2, <2>3, CallsGrow
  <2>5. out[l].ran + Due(out[l].state, pc[l]) <= Calls(Clip(t))
    BY DEF RanInv, RanOf, t
  <2>6. Due(out[l].state, pc[l]) \in Nat
    BY DEF Due
  <2>7. out[l].ran <= Calls(t)
    BY <2>1, <2>4, <2>5, <2>6
  <2> QED BY <2>7 DEF t
<1> QED BY <1>1, TurnsInvariant, PTL
=============================================================================
