---------------------------- MODULE ClientSession ----------------------------
(***************************************************************************)
(* The chat client (ui/app.py) in one browser session.  The script runs at  *)
(* every input and keeps what it needs in its session state; callbacks of   *)
(* buttons run before the script does, with the API client of the run that  *)
(* drew them.  Between two runs the token may be refreshed or another       *)
(* identity log in; a new input stops a run that is still streaming.        *)
(***************************************************************************)
EXTENDS Naturals, Sequences, FiniteSets

CONSTANTS
    Users,      \* identities
    Threads,    \* conversation ids
    Nowhere,    \* no conversation id
    MaxTokens,  \* bound: tokens issued
    MaxShown,   \* bound: messages shown
    MaxRuns     \* bound: runs started

ASSUME ClientAssumption ==
    /\ Nowhere \notin Threads \cup Users
    /\ MaxTokens \in Nat /\ MaxShown \in Nat /\ MaxRuns \in Nat

VARIABLES
    script,     \* what the script is doing
    issued,     \* the identities of the tokens so far; the last is in use
    loggedIn,   \* is anybody?
    bound,      \* api_client_token, 0 without a client
    thread,     \* conversation_id
    view,       \* messages; by, the identity whose conversation it was, is history
    activeRun,  \* active_run_id, 0 if it is not set
    toolsFor,   \* allowed_tools_token
    ticket,     \* approval_ticket: who requested it
    rated,      \* feedback-sent-...: runs that feedback was sent for
    owner,      \* the API's conversations: whose they are
    runs        \* runs started so far

clientVars == <<script, issued, loggedIn, bound, thread, view, activeRun, toolsFor,
                ticket, rated, owner, runs>>
page == <<bound, thread, view, activeRun, toolsFor, ticket, rated>>
api == <<issued, loggedIn, owner, runs>>

Token == Len(issued)
Me == issued[Token]

ClientInit ==
    /\ script = "idle" /\ issued = <<>> /\ loggedIn = FALSE
    /\ bound = 0 /\ thread = Nowhere /\ toolsFor = 0 /\ ticket = Nowhere
    /\ view = <<>> /\ activeRun = 0 /\ rated = {}
    /\ owner = [t \in {} |-> {}] /\ runs = 0

\* A login, or the refresh of the token that is in use.
Authenticate(u) ==
    /\ script = "idle" /\ Token < MaxTokens
    /\ issued' = Append(issued, u) /\ loggedIn' = TRUE
    /\ UNCHANGED <<script, page, owner, runs>>

\* create_conversation, by the identity of a token.
Create(t, token) ==
    /\ t \in Threads \ DOMAIN owner
    /\ owner' = [x \in DOMAIN owner \cup {t} |-> IF x = t THEN issued[token] ELSE owner[x]]
    /\ thread' = t

\* The conversation that a run of the script goes on with: _client drops one
\* that was of another token.
RememberedAlways == thread                              \* mutant: kept
Remembered == IF bound = Token THEN thread ELSE Nowhere

(* _client and _conversation_id.                                            *)
RunScript ==
    /\ script = "idle" /\ loggedIn
    /\ \/ /\ Remembered # Nowhere
          /\ script' = "drawn" /\ bound' = Token /\ thread' = Remembered
          /\ UNCHANGED owner
       \/ /\ Remembered = Nowhere
          /\ script' = "drawn" /\ bound' = Token
          /\ \E t \in Threads : Create(t, Token)
    /\ UNCHANGED <<issued, loggedIn, view, activeRun, toolsFor, ticket, rated, runs>>

\* _handle_conversation_error: a 401 also drops the client.
RunScriptFails ==
    /\ script = "idle" /\ loggedIn /\ Remembered = Nowhere
    /\ thread' = Nowhere
    /\ bound' \in {0, Token}
    /\ UNCHANGED <<script, view, activeRun, toolsFor, ticket, rated, api>>

\* _start_new_conversation, with the client of the last run.
NewConversation ==
    /\ script = "idle" /\ loggedIn /\ bound # 0 /\ view # <<>>
    /\ \/ /\ \E t \in Threads : Create(t, bound)
          /\ view' = <<>> /\ activeRun' = 0
          /\ UNCHANGED bound
       \/ /\ thread' = Nowhere /\ bound' = 0
          /\ UNCHANGED <<owner, view, activeRun>>
    /\ UNCHANGED <<script, issued, loggedIn, toolsFor, ticket, rated, runs>>

\* _logout forgets everything but the ticket and what was rated.
Logout ==
    /\ script = "idle" /\ loggedIn
    /\ loggedIn' = FALSE
    /\ bound' = 0 /\ thread' = Nowhere /\ toolsFor' = 0 /\ view' = <<>> /\ activeRun' = 0
    /\ UNCHANGED <<script, issued, ticket, rated, owner, runs>>

\* _switch_conversation, to one of those the API lists, whose messages name no
\* runs; the script runs again, also if they could not be loaded.
SwitchConversation(t) ==
    /\ script = "drawn" /\ t \in DOMAIN owner \ {thread} /\ owner[t] = issued[bound]
    /\ script' = "idle"
    /\ \/ /\ thread' = t /\ activeRun' = 0
          /\ view' \in {<<>>, <<[role |-> "assistant", run |-> 0, by |-> owner[t]]>>}
       \/ UNCHANGED <<thread, view, activeRun>>
    /\ UNCHANGED <<bound, toolsFor, ticket, rated, api>>

\* _allowed_tools: asked for once with every token.
AskForTools ==
    /\ script = "drawn" /\ toolsFor # bound
    /\ toolsFor' = bound
    /\ UNCHANGED <<script, bound, thread, view, activeRun, ticket, rated, api>>

\* The administrator's controls: a ticket stays until the API has decided it.
RequestRestart ==
    /\ script = "drawn" /\ toolsFor = bound
    /\ ticket' = issued[bound]
    /\ UNCHANGED <<script, bound, thread, view, activeRun, toolsFor, rated, api>>

DecideRestart ==
    /\ script = "drawn" /\ toolsFor = bound /\ ticket = issued[bound]
    /\ ticket' = Nowhere
    /\ UNCHANGED <<script, bound, thread, view, activeRun, toolsFor, rated, api>>

Answers == {i \in DOMAIN view : view[i].role = "assistant" /\ view[i].run # 0}

\* Two messages with one run's id: the second thumbs widget has a key that is
\* taken, which ends the script before it draws the chat input.
AllDrawn == \A i, j \in Answers : view[i].run = view[j].run => i = j

ThumbsUpOrDown(i) ==
    /\ script = "drawn" /\ i \in Answers /\ view[i].run \notin rated
    /\ rated' = rated \cup {view[i].run}
    /\ UNCHANGED <<script, bound, thread, view, activeRun, toolsFor, ticket, api>>

Show(role, run) == view' = Append(view, [role |-> role, run |-> run, by |-> issued[bound]])

\* The question is shown, then posted.
Ask ==
    /\ script = "drawn" /\ AllDrawn /\ Len(view) < MaxShown
    /\ Show("user", 0)
    /\ script' = "asked"
    /\ UNCHANGED <<bound, thread, activeRun, toolsFor, ticket, rated, api>>

(* _apply_event: the first event tells the run.                             *)
FirstEvent ==
    /\ script = "asked" /\ runs < MaxRuns
    /\ script' = "streaming"
    /\ runs' = runs + 1 /\ activeRun' = runs + 1
    /\ UNCHANGED <<issued, loggedIn, bound, thread, view, toolsFor, ticket, rated, owner>>

\* The stream ends, or an error does: before its first event the answer is
\* shown as that of the run before it.
Answered ==
    /\ script \in {"asked", "streaming"}
    /\ Show("assistant", activeRun)
    /\ script' = "idle"
    /\ UNCHANGED <<bound, thread, activeRun, toolsFor, ticket, rated, api>>

\* The run of the script ends; an input may come while it streams.
ScriptEnds ==
    /\ script # "idle"
    /\ script' = "idle"
    /\ UNCHANGED <<page, api>>

ClientNext ==
    \/ \E u \in Users : Authenticate(u)
    \/ \E t \in Threads : SwitchConversation(t)
    \/ \E i \in DOMAIN view : ThumbsUpOrDown(i)
    \/ RunScript \/ RunScriptFails \/ NewConversation \/ Logout \/ AskForTools
    \/ RequestRestart \/ DecideRestart \/ Ask \/ FirstEvent \/ Answered \/ ScriptEnds

ClientSpec == ClientInit /\ [][ClientNext]_clientVars
-----------------------------------------------------------------------------
(* Properties *)

ClientTypeOK ==
    /\ script \in {"idle", "drawn", "asked", "streaming"}
    /\ issued \in Seq(Users) /\ bound \in 0..Token /\ toolsFor \in 0..Token
    /\ thread \in Threads \cup {Nowhere}
    /\ DOMAIN owner \subseteq Threads /\ ticket \in Users \cup {Nowhere}
    /\ rated \subseteq 1..MaxRuns /\ activeRun \in 0..MaxRuns

\* However tokens are refreshed and identities change between runs, and with
\* whatever client a callback made it, the conversation that a drawn page sends
\* its question to is the present identity's.
SessionFollowsIdentity ==
    script # "idle" =>
        /\ bound = Token /\ thread \in DOMAIN owner /\ owner[thread] = Me

\* "A new identity must not inherit the previous identity's conversation."
\* (ui/app.py, _client): whoever uses the client sees no message of another's.
NothingInherited == script # "idle" => \A i \in DOMAIN view : view[i].by = Me
=============================================================================
