------------------------------ MODULE ChatProofs ------------------------------
(***************************************************************************)
(* Proofs about Chat for any number of messages sent to a conversation, any *)
(* number of them in flight, and any lengths of an answer and of the tail   *)
(* that is kept verbatim.                                                   *)
(***************************************************************************)
EXTENDS Chat, SequenceTheorems, TLAPS

Message == [of : Posts, role : {"user", "assistant"}, parts : 0..Chunks]
Roles == {"user", "assistant"}

-----------------------------------------------------------------------------
(* The inductive invariant.                                                *)

\* A post is in the middle of a call only where it makes one, and writes
\* only where it has something to append.
CallsArePlaced ==
    \A q \in Posts : /\ step[q] # "row" => phase[q] \in Calling
                     /\ step[q] = "write" => phase[q] \in Roles

\* A summary of a conversation of some length leaves the tail out.
Past(count, length) == count = 0 \/ count + Kept <= length

\* What a call has read is of the past of the conversation, and stays so while
\* others append: messages are only added.
ReadsAreOfThePast ==
    /\ Past(summarized, Len(messages))
    /\ \A q \in Posts :
         /\ step[q] = "messages" => Past(snapshot[q].count, Len(messages))
         /\ step[q] = "write" => /\ Past(snapshot[q].count, snapshot[q].length)
                                 /\ snapshot[q].length <= Len(messages)
         /\ Past(context[q].count, context[q].length)

\* A message is stored by the post it is of, at the one place of its way
\* where it appends a message of that role.
MessagesAreTimely ==
    \A i \in DOMAIN messages :
        /\ messages[i].role = "user" => phase[messages[i].of] \notin {"new", "load", "user"}
        /\ messages[i].role = "assistant" =>
               /\ phase[messages[i].of] \in Over
               /\ messages[i].parts = Chunks /\ parts[messages[i].of] = Chunks
MessagesAreOnce ==
    \A i, j \in DOMAIN messages :
        messages[i].of = messages[j].of /\ messages[i].role = messages[j].role => i = j
AnswersAreWhole ==
    \A q \in Posts : /\ phase[q] = "assistant" => parts[q] = Chunks
                     /\ phase[q] = "done" /\ parts[q] > 0 => Saved(q)

\* A run begins behind its question, so its answer is stored behind it.
AskedBy(q, n) == \E k \in 1..n : messages[k].of = q /\ messages[k].role = "user"
QuestionsComeFirst ==
    /\ \A q \in Posts : phase[q] \in {"stream", "assistant"} => AskedBy(q, Len(messages))
    /\ \A i \in DOMAIN messages :
         messages[i].role = "assistant" => AskedBy(messages[i].of, i)

Stored == MessagesAreTimely /\ MessagesAreOnce /\ AnswersAreWhole /\ QuestionsComeFirst
IInv == ChatTypeOK /\ CallsArePlaced /\ ReadsAreOfThePast /\ Stored

-----------------------------------------------------------------------------
(* What the steps do.                                                      *)

\* The rolling summary of what was read and one message more.
LEMMA RolledType ==
    ASSUME NEW s \in Snapshot
    PROVE  /\ Rolled(s) \in Nat
           /\ Past(s.count, s.length) => Past(Rolled(s), s.length + 1)
           /\ s.length + 1 > SummaryAfter => Rolled(s) + Kept = s.length + 1
<1>1. s.count \in Nat /\ s.length \in Nat
    BY DEF Snapshot
<1> QED BY <1>1, ChatAssumption DEF Rolled, Past, ChatAssumption

\* A commit ends the call of the store; what follows depends on whether it is
\* acknowledged.
LEMMA Commits ==
    ASSUME NEW q \in Posts, Write(q) \/ WriteUnheard(q)
    PROVE  /\ CommitMessage(q)
           /\ \E end \in {"stream", "done", "failed", "gone"} :
                /\ phase' = [phase EXCEPT ![q] = end]
                /\ phase[q] = "user" => end # "done"
                /\ phase[q] # "user" => end # "stream"
BY DEF Write, WriteUnheard, AfterError

\* A step appends one message, by the post that writes it, or none.
LEMMA MessagesStep ==
    ASSUME ChatTypeOK, [ChatNext]_chatVars
    PROVE  \/ UNCHANGED <<messages, summarized>>
           \/ \E q \in Posts : CommitMessage(q)
<1>1. ASSUME NEW q \in Posts,
             \/ Accept(q) \/ ReadRow(q) \/ ReadMessages(q)
             \/ Deliver(q) \/ Finish(q) \/ Fail(q) \/ Leave(q)
      PROVE  UNCHANGED <<messages, summarized>>
    BY <1>1 DEF Accept, ReadRow, ReadMessages, Deliver, Finish, Fail, Leave
<1>2. CASE UNCHANGED chatVars
    BY <1>2 DEF chatVars
<1> QED BY <1>1, <1>2, Commits DEF ChatNext

\* What a write appends.
LEMMA WriteAppends ==
    ASSUME ChatTypeOK, CallsArePlaced, NEW q \in Posts, CommitMessage(q)
    PROVE  /\ [of |-> q, role |-> phase[q], parts |-> parts[q]] \in Message
           /\ messages \in Seq(Message) /\ messages' \in Seq(Message)
           /\ Len(messages') = Len(messages) + 1
           /\ \A i \in 1..Len(messages) : messages'[i] = messages[i]
           /\ messages'[Len(messages) + 1] = [of |-> q, role |-> phase[q], parts |-> parts[q]]
<1> DEFINE m == [of |-> q, role |-> phase[q], parts |-> parts[q]]
<1>1. messages \in Seq(Message) /\ m \in Message
    BY DEF ChatTypeOK, CallsArePlaced, CommitMessage, Message, Roles
<1>2. messages' = Append(messages, m)
    BY DEF CommitMessage
<1> HIDE DEF m
<1>3. /\ messages' \in Seq(Message) /\ Len(messages') = Len(messages) + 1
      /\ \A i \in 1..Len(messages) : messages'[i] = messages[i]
      /\ messages'[Len(messages) + 1] = m
    BY <1>1, <1>2, AppendProperties
<1> QED BY <1>1, <1>3 DEF m

\* A conversation begins with no message and no post under way.
LEMMA InvInit == ChatInit => IInv
<1> SUFFICES ASSUME ChatInit PROVE IInv
    OBVIOUS
<1>1. ChatTypeOK
    <2>1. messages \in Seq([of : Posts, role : {"user", "assistant"}, parts : 0..Chunks])
        BY EmptySeq DEF ChatInit
    <2>2. parts \in [Posts -> 0..Chunks]
        BY ChatAssumption DEF ChatInit, ChatAssumption
    <2> QED BY <2>1, <2>2 DEF ChatInit, ChatTypeOK, Phases, Snapshot, Empty
<1>2. CallsArePlaced /\ ReadsAreOfThePast
    BY DEF ChatInit, CallsArePlaced, ReadsAreOfThePast, Past, Empty
<1>3. Stored
    BY DEF ChatInit, Stored, MessagesAreTimely, MessagesAreOnce, AnswersAreWhole,
           QuestionsComeFirst
<1> QED BY <1>1, <1>2, <1>3 DEF IInv

\* Every step keeps the types, and a call is only made where it belongs.
LEMMA TypeStep ==
    ASSUME ChatTypeOK, CallsArePlaced, [ChatNext]_chatVars
    PROVE  ChatTypeOK' /\ CallsArePlaced'
<1> DEFINE Goal == ChatTypeOK' /\ CallsArePlaced'
<1>0. /\ summarized \in Nat /\ messages \in Seq(Message)
      /\ phase \in [Posts -> Phases]
      /\ step \in [Posts -> {"row", "messages", "write"}]
      /\ snapshot \in [Posts -> Snapshot] /\ context \in [Posts -> Snapshot]
      /\ parts \in [Posts -> 0..Chunks]
    BY DEF ChatTypeOK, Message
<1>type. ChatTypeOK' <=> /\ messages' \in Seq(Message) /\ summarized' \in Nat
                         /\ phase' \in [Posts -> Phases]
                         /\ step' \in [Posts -> {"row", "messages", "write"}]
                         /\ snapshot' \in [Posts -> Snapshot]
                         /\ context' \in [Posts -> Snapshot]
                         /\ parts' \in [Posts -> 0..Chunks]
    BY DEF ChatTypeOK, Message
<1> USE DEF CallsArePlaced
<1>1. ASSUME NEW q \in Posts, Accept(q) PROVE Goal
    BY <1>0, <1>1, <1>type DEF Accept, Phases, Calling
<1>2. ASSUME NEW q \in Posts, ReadRow(q) PROVE Goal
    BY <1>0, <1>2, <1>type DEF ReadRow, Snapshot, Roles
<1>3. ASSUME NEW q \in Posts, ReadMessages(q) PROVE Goal
    <2>1. snapshot' \in [Posts -> Snapshot]
        <3>1. snapshot' = [snapshot EXCEPT ![q].length = Len(messages)]
            BY <1>3 DEF ReadMessages
        <3>2. Len(messages) \in Nat
            BY <1>0
        <3> QED BY <1>0, <3>1, <3>2 DEF Snapshot
    <2>2. CASE phase[q] = "load"
        <3>1. /\ context' = [context EXCEPT ![q] = snapshot'[q]]
              /\ phase' = [phase EXCEPT ![q] = "user"]
              /\ step' = [step EXCEPT ![q] = "row"]
              /\ UNCHANGED <<messages, summarized, parts>>
            BY <1>3, <2>2 DEF ReadMessages
        <3>2. context' \in [Posts -> Snapshot]
            BY <1>0, <2>1, <3>1
        <3>3. phase' \in [Posts -> Phases] /\ step' \in [Posts -> {"row", "messages", "write"}]
            BY <1>0, <3>1 DEF Phases, Calling
        <3>4. CallsArePlaced'
            BY <1>0, <3>1 DEF Calling, Roles
        <3> QED BY <1>0, <1>type, <2>1, <3>1, <3>2, <3>3, <3>4
    <2>3. CASE phase[q] # "load"
        <3>1. /\ step[q] = "messages"
              /\ step' = [step EXCEPT ![q] = "write"]
              /\ UNCHANGED <<messages, summarized, parts, context, phase>>
            BY <1>3, <2>3 DEF ReadMessages
        <3>2. step' \in [Posts -> {"row", "messages", "write"}]
            BY <1>0, <3>1
        <3>3. CallsArePlaced'
            BY <1>0, <2>3, <3>1 DEF Calling, Roles
        <3> QED BY <1>0, <1>type, <2>1, <3>1, <3>2, <3>3
    <2> QED BY <2>2, <2>3
<1>4. ASSUME NEW q \in Posts, Write(q) \/ WriteUnheard(q) PROVE Goal
    <2>0. CommitMessage(q)
        BY <1>4, Commits
    <2>1. messages' \in Seq(Message)
        BY <2>0, WriteAppends
    <2>2. summarized' \in Nat
        BY <1>0, <2>0, RolledType DEF CommitMessage
    <2>3. /\ \E end \in {"stream", "done", "failed", "gone"} :
                phase' = [phase EXCEPT ![q] = end]
          /\ step' = [step EXCEPT ![q] = "row"] /\ UNCHANGED <<snapshot, context, parts>>
        BY <1>4, <2>0, Commits DEF CommitMessage
    <2>4. phase' \in [Posts -> Phases] /\ step' \in [Posts -> {"row", "messages", "write"}]
        BY <1>0, <2>3 DEF Phases, Over
    <2>5. CallsArePlaced'
        BY <1>0, <2>3
    <2> QED BY <1>0, <1>type, <2>1, <2>2, <2>3, <2>4, <2>5
<1>5. ASSUME NEW q \in Posts, Deliver(q) PROVE Goal
    <2>1. parts' \in [Posts -> 0..Chunks]
        BY <1>0, <1>5, ChatAssumption DEF Deliver, ChatAssumption
    <2> QED BY <1>0, <1>5, <1>type, <2>1 DEF Deliver
<1>6. ASSUME NEW q \in Posts, Finish(q) PROVE Goal
    BY <1>0, <1>6, <1>type DEF Finish, Phases, Calling, Roles, Over
<1>7. ASSUME NEW q \in Posts, Fail(q) \/ Leave(q) PROVE Goal
    BY <1>0, <1>7, <1>type DEF Fail, Leave, AfterError, Phases, Over
<1>8. CASE UNCHANGED chatVars
    BY <1>0, <1>8, <1>type DEF chatVars
<1> QED BY <1>1, <1>2, <1>3, <1>4, <1>5, <1>6, <1>7, <1>8 DEF ChatNext

\* Whatever others append between a read and its write, what was read stays
\* of the past, and so does the summary that is written from it.
LEMMA PastStep ==
    ASSUME ChatTypeOK, CallsArePlaced, ReadsAreOfThePast, [ChatNext]_chatVars
    PROVE  ReadsAreOfThePast'
<1>0. /\ summarized \in Nat /\ messages \in Seq(Message) /\ Len(messages) \in Nat
      /\ phase \in [Posts -> Phases]
      /\ step \in [Posts -> {"row", "messages", "write"}]
      /\ snapshot \in [Posts -> Snapshot] /\ context \in [Posts -> Snapshot]
    BY DEF ChatTypeOK, Message
<1>k. Kept \in Nat
    BY ChatAssumption DEF ChatAssumption
<1> USE DEF ReadsAreOfThePast
<1>1. ASSUME NEW q \in Posts, Accept(q) \/ Deliver(q) \/ Finish(q)
      PROVE  ReadsAreOfThePast'
    BY <1>0, <1>1 DEF Accept, Deliver, Finish, Past
<1>2. ASSUME NEW q \in Posts, ReadRow(q) PROVE ReadsAreOfThePast'
    <2>1. /\ snapshot' = [snapshot EXCEPT ![q].count = summarized]
          /\ step' = [step EXCEPT ![q] = "messages"]
          /\ UNCHANGED <<messages, summarized, context>>
        BY <1>2 DEF ReadRow
    <2>2. \A p \in Posts : p # q => snapshot'[p] = snapshot[p] /\ step'[p] = step[p]
        BY <1>0, <2>1
    <2>3. snapshot'[q].count = summarized /\ step'[q] = "messages"
        BY <1>0, <2>1 DEF Snapshot
    <2> QED BY <1>0, <2>1, <2>2, <2>3 DEF Past
<1>3. ASSUME NEW q \in Posts, ReadMessages(q) PROVE ReadsAreOfThePast'
    <2>1. /\ step[q] = "messages" /\ UNCHANGED <<messages, summarized>>
          /\ snapshot' = [snapshot EXCEPT ![q].length = Len(messages)]
          /\ \/ /\ context' = [context EXCEPT ![q] = snapshot'[q]]
                /\ step' = [step EXCEPT ![q] = "row"]
             \/ /\ context' = context
                /\ step' = [step EXCEPT ![q] = "write"]
        BY <1>3 DEF ReadMessages
    <2>2. \A p \in Posts : p # q => /\ snapshot'[p] = snapshot[p] /\ step'[p] = step[p]
                                    /\ context'[p] = context[p]
        BY <1>0, <2>1
    <2>3. /\ snapshot'[q].count = snapshot[q].count
          /\ snapshot'[q].length = Len(messages)
        BY <1>0, <2>1 DEF Snapshot
    <2>4. Past(snapshot'[q].count, snapshot'[q].length)
        BY <2>1, <2>3
    <2>5. context'[q] = snapshot'[q] \/ context'[q] = context[q]
        BY <1>0, <2>1
    <2>6. step'[q] # "messages"
        BY <1>0, <2>1
    <2>7. Past(summarized', Len(messages')) /\ Len(messages') = Len(messages)
        BY <2>1
    <2>8. ASSUME NEW p \in Posts
          PROVE  /\ step'[p] = "messages" => Past(snapshot'[p].count, Len(messages'))
                 /\ step'[p] = "write" => /\ Past(snapshot'[p].count, snapshot'[p].length)
                                          /\ snapshot'[p].length <= Len(messages')
                 /\ Past(context'[p].count, context'[p].length)
        <3>1. CASE p # q
            BY <2>2, <2>7, <3>1
        <3>2. CASE p = q
            BY <1>0, <2>3, <2>4, <2>5, <2>6, <2>7, <3>2
        <3> QED BY <3>1, <3>2
    <2> QED BY <2>7, <2>8
<1>4. ASSUME NEW q \in Posts, CommitMessage(q) PROVE ReadsAreOfThePast'
    <2>1. /\ step[q] = "write" /\ summarized' = Rolled(snapshot[q])
          /\ step' = [step EXCEPT ![q] = "row"] /\ UNCHANGED <<snapshot, context>>
        BY <1>4 DEF CommitMessage
    <2>2. Len(messages') = Len(messages) + 1
        BY <1>4, WriteAppends
    <2>3. /\ snapshot[q].count \in Nat /\ snapshot[q].length \in Nat
          /\ Past(Rolled(snapshot[q]), snapshot[q].length + 1) /\ Rolled(snapshot[q]) \in Nat
        BY <1>0, <2>1, RolledType DEF Snapshot
    <2>4. Past(summarized', Len(messages'))
        BY <1>0, <1>k, <2>1, <2>2, <2>3 DEF Past
    <2>5. \A p \in Posts : snapshot[p].count \in Nat /\ snapshot[p].length \in Nat
        BY <1>0 DEF Snapshot
    <2>6. \A p \in Posts : step'[p] # "row" => step'[p] = step[p]
        BY <1>0, <2>1
    <2>7. \A n \in Nat : Past(n, Len(messages)) => Past(n, Len(messages'))
        BY <1>0, <1>k, <2>2 DEF Past
    <2>8. \A p \in Posts : snapshot[p].length <= Len(messages) => snapshot[p].length <= Len(messages')
        BY <1>0, <2>2, <2>5
    <2> QED BY <2>1, <2>4, <2>5, <2>6, <2>7, <2>8
<1>5. ASSUME NEW q \in Posts, Fail(q) \/ Leave(q) PROVE ReadsAreOfThePast'
    <2>1. /\ step' = [step EXCEPT ![q] = "row"]
          /\ UNCHANGED <<messages, summarized, snapshot, context>>
        BY <1>5 DEF Fail, Leave
    <2>2. \A p \in Posts : step'[p] # "row" => step'[p] = step[p]
        BY <1>0, <2>1
    <2> QED BY <2>1, <2>2 DEF Past
<1>6. CASE UNCHANGED chatVars
    BY <1>6 DEF chatVars, Past
<1> QED BY <1>1, <1>2, <1>3, <1>4, <1>5, <1>6, Commits DEF ChatNext

\* A post passes the places where it appends once, so a message of a role is
\* stored once; a commit ends its run, acknowledged or not.
LEMMA StoredStep ==
    ASSUME ChatTypeOK, CallsArePlaced, Stored, [ChatNext]_chatVars
    PROVE  Stored'
<1>0. /\ messages \in Seq(Message) /\ phase \in [Posts -> Phases]
      /\ parts \in [Posts -> 0..Chunks]
      /\ \A i \in DOMAIN messages : messages[i].of \in Posts
      /\ DOMAIN messages = 1..Len(messages) /\ Len(messages) \in Nat
    <2>1. /\ messages \in Seq(Message) /\ phase \in [Posts -> Phases]
          /\ parts \in [Posts -> 0..Chunks]
        BY DEF ChatTypeOK, Message
    <2>2. \A i \in DOMAIN messages : messages[i] \in Message
        BY <2>1
    <2> QED BY <2>1, <2>2 DEF Message
\* A step that stores nothing and takes one post, not over, on its way.
<1>on. ASSUME NEW q \in Posts, UNCHANGED messages,
              \A p \in Posts \ {q} : phase'[p] = phase[p] /\ parts'[p] = parts[p],
              phase[q] \notin Over,
              phase[q] \notin {"new", "load", "user"} =>
                  phase'[q] \notin {"new", "load", "user"},
              phase'[q] \in {"stream", "assistant"} => phase[q] \in {"stream", "assistant"},
              phase'[q] = "assistant" => parts'[q] = Chunks,
              phase'[q] = "done" => parts'[q] = 0
       PROVE  Stored'
    <2>1. ASSUME NEW i \in DOMAIN messages
          PROVE  /\ messages[i].role = "user" =>
                        phase'[messages[i].of] \notin {"new", "load", "user"}
                 /\ messages[i].role = "assistant" =>
                        /\ phase'[messages[i].of] \in Over
                        /\ messages[i].parts = Chunks /\ parts'[messages[i].of] = Chunks
        <3>1. CASE messages[i].of = q
            BY <1>on, <3>1 DEF Stored, MessagesAreTimely
        <3>2. CASE messages[i].of # q
            BY <1>0, <1>on, <3>2 DEF Stored, MessagesAreTimely
        <3> QED BY <3>1, <3>2
    <2>2. MessagesAreTimely' /\ MessagesAreOnce'
        BY <1>on, <2>1 DEF Stored, MessagesAreTimely, MessagesAreOnce
    <2>3. AnswersAreWhole'
        <3>1. ~(0 > 0)
            OBVIOUS
        <3> QED BY <1>on, <3>1 DEF Stored, AnswersAreWhole, Saved
    <2>4. QuestionsComeFirst'
        BY <1>on DEF Stored, QuestionsComeFirst, AskedBy
    <2> QED BY <2>2, <2>3, <2>4 DEF Stored
<1>1. ASSUME NEW q \in Posts, Accept(q) PROVE Stored'
    BY <1>0, <1>1, <1>on DEF Accept, Over
<1>2. ASSUME UNCHANGED <<messages, phase, parts>> PROVE Stored'
    BY <1>2 DEF Stored, MessagesAreTimely, MessagesAreOnce, AnswersAreWhole, Saved,
                QuestionsComeFirst, AskedBy
<1>3. ASSUME NEW q \in Posts, ReadMessages(q) PROVE Stored'
    <2>1. UNCHANGED <<messages, parts>>
        BY <1>3 DEF ReadMessages
    <2>2. CASE phase[q] = "load"
        <3>1. phase' = [phase EXCEPT ![q] = "user"]
            BY <1>3, <2>2 DEF ReadMessages
        <3> QED BY <1>0, <1>on, <2>1, <2>2, <3>1 DEF Over
    <2>3. CASE phase[q] # "load"
        <3>1. phase' = phase
            BY <1>3, <2>3 DEF ReadMessages
        <3> QED BY <1>2, <2>1, <3>1
    <2> QED BY <2>2, <2>3
<1>4. ASSUME NEW q \in Posts, Write(q) \/ WriteUnheard(q) PROVE Stored'
    <2> DEFINE m == [of |-> q, role |-> phase[q], parts |-> parts[q]]
               n == Len(messages)
    <2>0. CommitMessage(q)
        BY <1>4, Commits
    <2>1. /\ n \in Nat /\ DOMAIN messages = 1..n /\ DOMAIN messages' = 1..(n + 1)
          /\ \A i \in 1..n : messages'[i] = messages[i]
          /\ messages'[n + 1] = m /\ Len(messages') = n + 1
        <3>1. /\ messages \in Seq(Message) /\ messages' \in Seq(Message)
              /\ Len(messages') = Len(messages) + 1
              /\ \A i \in 1..Len(messages) : messages'[i] = messages[i]
              /\ messages'[Len(messages) + 1] = m
            BY <2>0, WriteAppends
        <3> HIDE DEF m
        <3> QED BY <3>1
    <2>2. phase[q] \in Roles /\ parts' = parts
        BY <2>0 DEF CommitMessage, CallsArePlaced
    <2>end. PICK end \in {"stream", "done", "failed", "gone"} :
                /\ phase' = [phase EXCEPT ![q] = end]
                /\ phase[q] = "user" => end # "done"
                /\ phase[q] # "user" => end # "stream"
        BY <1>4, Commits
    <2>3. /\ m.of = q /\ m.role = phase[q] /\ m.parts = parts[q]
        OBVIOUS
    <2> HIDE DEF m, n
    <2>4. \A i \in 1..n : messages[i].of = q =>
              messages[i].role # phase[q] /\ messages[i].role # "assistant"
        BY <2>1, <2>2 DEF Stored, MessagesAreTimely, Roles, Over
    <2>at. /\ phase'[q] = end /\ end \notin {"new", "load", "user", "assistant"}
           /\ \A p \in Posts : p # q => phase'[p] = phase[p]
           /\ phase[q] = "assistant" => end \in Over
        BY <1>0, <2>end DEF Over
    <2>5. MessagesAreTimely'
        <3>1. ASSUME NEW i \in 1..n
              PROVE  /\ messages[i].role = "user" =>
                            phase'[messages[i].of] \notin {"new", "load", "user"}
                     /\ messages[i].role = "assistant" =>
                            /\ phase'[messages[i].of] \in Over
                            /\ messages[i].parts = Chunks
                            /\ parts'[messages[i].of] = Chunks
            <4>1. CASE messages[i].of = q
                BY <2>4, <2>at, <4>1
            <4>2. CASE messages[i].of # q
                BY <1>0, <2>1, <2>2, <2>at, <4>2 DEF Stored, MessagesAreTimely
            <4> QED BY <4>1, <4>2
        <3>2. /\ m.role = "user" => phase'[m.of] \notin {"new", "load", "user"}
              /\ m.role = "assistant" =>
                     phase'[m.of] \in Over /\ m.parts = Chunks /\ parts'[m.of] = Chunks
            BY <2>2, <2>3, <2>at DEF Stored, AnswersAreWhole
        <3> QED BY <2>1, <3>1, <3>2 DEF MessagesAreTimely
    <2>6. MessagesAreOnce'
        <3>1. ASSUME NEW i \in 1..(n + 1), NEW j \in 1..(n + 1),
                     messages'[i].of = messages'[j].of, messages'[i].role = messages'[j].role
              PROVE  i = j
            <4>1. CASE i \in 1..n /\ j \in 1..n
                BY <2>1, <3>1, <4>1 DEF Stored, MessagesAreOnce
            <4>2. CASE i \in 1..n /\ j = n + 1
                BY <2>1, <2>3, <2>4, <3>1, <4>2
            <4>3. CASE i = n + 1 /\ j \in 1..n
                BY <2>1, <2>3, <2>4, <3>1, <4>3
            <4> QED BY <2>1, <4>1, <4>2, <4>3
        <3> QED BY <2>1, <3>1 DEF MessagesAreOnce
    <2>7. AnswersAreWhole'
        <3>1. \A p \in Posts : phase'[p] = "assistant" => parts'[p] = Chunks
            BY <2>2, <2>at DEF Stored, AnswersAreWhole
        <3>2. ASSUME NEW p \in Posts, phase'[p] = "done", parts'[p] > 0
              PROVE  \E i \in 1..(n + 1) : messages'[i].of = p /\ messages'[i].role = "assistant"
            <4>1. CASE p = q
                <5>1. n + 1 \in 1..(n + 1)
                    BY <2>1
                <5>2. phase[q] = "assistant"
                    BY <2>2, <2>at, <2>end, <3>2, <4>1 DEF Roles
                <5> QED BY <2>1, <2>3, <4>1, <5>1, <5>2
            <4>2. CASE p # q
                <5>1. phase[p] = "done" /\ parts[p] > 0
                    BY <2>2, <2>at, <3>2, <4>2
                <5>2. PICK i \in 1..n : messages[i].of = p /\ messages[i].role = "assistant"
                    BY <2>1, <5>1 DEF Stored, AnswersAreWhole, Saved
                <5>3. i \in 1..(n + 1)
                    BY <2>1
                <5> QED BY <2>1, <5>2, <5>3
            <4> QED BY <4>1, <4>2
        <3> QED BY <2>1, <3>1, <3>2 DEF AnswersAreWhole, Saved
    <2>8. QuestionsComeFirst'
        <3> DEFINE Now(p, i) ==
                \E k \in 1..i : messages'[k].of = p /\ messages'[k].role = "user"
        <3>kept. ASSUME NEW p, NEW i \in 1..(n + 1), NEW j \in 1..n, j <= i, AskedBy(p, j)
                 PROVE  Now(p, i)
            <4>1. PICK k \in 1..j : messages[k].of = p /\ messages[k].role = "user"
                BY <3>kept DEF AskedBy
            <4>2. k \in 1..n /\ k \in 1..i
                BY <2>1, <3>kept, <4>1
            <4> QED BY <2>1, <4>1, <4>2
        <3>n. ASSUME NEW p, AskedBy(p, n)
              PROVE  n \in 1..n
            BY <2>1, <3>n DEF AskedBy
        <3>1. ASSUME NEW p \in Posts, phase'[p] \in {"stream", "assistant"}
              PROVE  Now(p, n + 1)
            <4>1. CASE p = q
                <5>1. phase[q] = "user"
                    BY <2>at, <2>end, <3>1, <4>1
                <5>2. n + 1 \in 1..(n + 1)
                    BY <2>1
                <5> QED BY <2>1, <2>3, <4>1, <5>1, <5>2
            <4>2. CASE p # q
                <5>1. AskedBy(p, n)
                    BY <2>at, <3>1, <4>2 DEF Stored, QuestionsComeFirst, n
                <5>2. n + 1 \in 1..(n + 1) /\ n <= n + 1 /\ n \in 1..n
                    BY <2>1, <3>n, <5>1
                <5> QED BY <3>kept, <5>1, <5>2
            <4> QED BY <4>1, <4>2
        <3>2. ASSUME NEW i \in 1..n, messages[i].role = "assistant"
              PROVE  Now(messages[i].of, i)
            <4>1. AskedBy(messages[i].of, i)
                BY <2>1, <3>2 DEF Stored, QuestionsComeFirst
            <4>2. i \in 1..(n + 1) /\ i <= i
                BY <2>1
            <4> HIDE DEF Now
            <4> QED BY <3>kept, <4>1, <4>2
        <3>3. ASSUME phase[q] = "assistant" PROVE Now(q, n + 1)
            <4>1. AskedBy(q, n)
                BY <3>3 DEF Stored, QuestionsComeFirst, n
            <4>2. n + 1 \in 1..(n + 1) /\ n <= n + 1 /\ n \in 1..n
                BY <2>1, <3>n, <4>1
            <4> QED BY <3>kept, <4>1, <4>2
        <3>4. ASSUME NEW i \in 1..(n + 1), messages'[i].role = "assistant"
              PROVE  Now(messages'[i].of, i)
            <4>1. CASE i \in 1..n
                <5>1. messages'[i] = messages[i]
                    BY <2>1, <4>1
                <5> QED BY <3>2, <3>4, <4>1, <5>1
            <4>2. CASE i = n + 1
                <5>1. messages'[i] = m
                    BY <2>1, <4>2
                <5> QED BY <2>3, <3>3, <3>4, <4>2, <5>1
            <4> QED BY <2>1, <4>1, <4>2
        <3> QED BY <2>1, <3>1, <3>4 DEF QuestionsComeFirst, AskedBy
    <2> QED BY <2>5, <2>6, <2>7, <2>8 DEF Stored
<1>5. ASSUME NEW q \in Posts, Deliver(q) PROVE Stored'
    BY <1>0, <1>5, <1>on DEF Deliver, Over
<1>6. ASSUME NEW q \in Posts, Finish(q) PROVE Stored'
    <2>1. /\ UNCHANGED <<messages, parts>> /\ phase[q] = "stream"
          /\ phase' = [phase EXCEPT ![q] = IF parts[q] > 0 THEN "assistant" ELSE "done"]
          /\ parts[q] \in {0, Chunks}
        BY <1>6 DEF Finish, Exhausted
    <2>2. parts[q] > 0 => parts[q] = Chunks
        BY <2>1
    <2>3. ~(parts[q] > 0) => parts[q] = 0
        BY <1>0, <2>1, ChatAssumption DEF ChatAssumption
    <2> QED BY <1>0, <1>on, <2>1, <2>2, <2>3 DEF Over
<1>7. ASSUME NEW q \in Posts, Fail(q) \/ Leave(q) PROVE Stored'
    <2>1. UNCHANGED <<messages, parts>> /\ phase[q] \notin Over
        BY <1>7 DEF Fail, Leave, Busy
    <2>2. \/ phase' = [phase EXCEPT ![q] = "failed"]
          \/ phase' = [phase EXCEPT ![q] = "gone"]
        BY <1>7 DEF Fail, Leave, AfterError
    <2> QED BY <1>0, <1>on, <2>1, <2>2
<1>8. (\E q \in Posts : ReadRow(q)) \/ UNCHANGED chatVars => UNCHANGED <<messages, phase, parts>>
    BY DEF ReadRow, chatVars
<1> QED BY <1>1, <1>2, <1>3, <1>4, <1>5, <1>6, <1>7, <1>8 DEF ChatNext

-----------------------------------------------------------------------------
(* The theorems.                                                           *)

LEMMA InvHolds == ChatSpec => []IInv
<1>1. IInv /\ [ChatNext]_chatVars => IInv'
    BY TypeStep, PastStep, StoredStep DEF IInv
<1> QED BY InvInit, <1>1, PTL DEF ChatSpec

\* Every variable keeps its type; no summary is of less than nothing.
THEOREM TypeCorrect == ChatSpec => []ChatTypeOK
<1>1. IInv => ChatTypeOK
    BY DEF IInv
<1> QED BY InvHolds, <1>1, PTL

\* Whatever reads and appends of a conversation interleave, its summary and
\* the summary of every context stay out of the tail that is kept verbatim.
THEOREM SummariesArePast == ChatSpec => []SummaryIsOfThePast
<1>1. IInv => SummaryIsOfThePast
    BY DEF IInv, ReadsAreOfThePast, Past, SummaryIsOfThePast
<1> QED BY InvHolds, <1>1, PTL

\* Whatever posts interleave, wherever they fail, and whether or not a commit is
\* acknowledged: a run that ended well has its answer stored, if it gave one; an
\* answer is stored whole, once, behind its question, and by a post that is over.
THEOREM OutcomesAreHonest == ChatSpec => []OutcomeIsHonest
<1>1. ASSUME IInv PROVE OutcomeIsHonest
    <2>0. Chunks > 0 /\ messages \in Seq(Message)
        BY <1>1, ChatAssumption DEF IInv, ChatTypeOK, Message, ChatAssumption
    <2>1. ASSUME NEW q \in Posts
          PROVE  /\ phase[q] = "done" => (Saved(q) <=> parts[q] > 0)
                 /\ Saved(q) => phase[q] \in Over
        <3>1. ASSUME Saved(q) PROVE phase[q] \in Over /\ parts[q] > 0
            BY <1>1, <2>0, <3>1 DEF IInv, Stored, MessagesAreTimely, Saved
        <3> QED BY <1>1, <3>1 DEF IInv, Stored, AnswersAreWhole
    <2>2. ASSUME NEW i \in DOMAIN messages, NEW j \in DOMAIN messages
          PROVE  messages[i] = messages[j] => i = j
        BY <1>1 DEF IInv, Stored, MessagesAreOnce
    <2>3. ASSUME NEW i \in DOMAIN messages, messages[i].role = "assistant"
          PROVE  /\ messages[i].parts = Chunks
                 /\ \E k \in 1..i : messages[k].of = messages[i].of /\ messages[k].role = "user"
        BY <1>1, <2>3 DEF IInv, Stored, MessagesAreTimely, QuestionsComeFirst, AskedBy
    <2> QED BY <2>1, <2>2, <2>3 DEF OutcomeIsHonest
<1> QED BY InvHolds, <1>1, PTL

\* An append that nothing came between makes the summary of a long
\* conversation and its verbatim tail meet again.
THEOREM LoneAppendsHeal == ChatSpec => LoneAppendHeals
<1> DEFINE Healed ==
        (/\ Len(messages') > SummaryAfter
         /\ \E q \in Posts : /\ step[q] = "write" /\ step'[q] = "row"
                             /\ snapshot[q].length = Len(messages)
                             /\ Len(messages') = Len(messages) + 1)
            => summarized' + Kept = Len(messages')
<1>1. ASSUME IInv, [ChatNext]_chatVars PROVE [Healed]_chatVars
    <2> SUFFICES ASSUME NEW q \in Posts, Len(messages') > SummaryAfter,
                        step[q] = "write", step'[q] = "row",
                        snapshot[q].length = Len(messages),
                        Len(messages') = Len(messages) + 1
                 PROVE  summarized' + Kept = Len(messages')
        OBVIOUS
    <2>1. Len(messages) \in Nat /\ snapshot[q] \in Snapshot
        BY <1>1 DEF IInv, ChatTypeOK
    <2>2. PICK p \in Posts : CommitMessage(p)
        BY <1>1, <2>1, MessagesStep DEF IInv
    <2>3. p = q
        BY <1>1, <2>2 DEF CommitMessage, IInv, ChatTypeOK
    <2>4. summarized' = Rolled(snapshot[q])
        BY <2>2, <2>3 DEF CommitMessage
    <2> QED BY <2>1, <2>4, RolledType
<1>2. IInv /\ [ChatNext]_chatVars => [Healed]_chatVars
    BY <1>1
<1> QED BY InvHolds, <1>2, PTL DEF ChatSpec, LoneAppendHeals

=============================================================================
