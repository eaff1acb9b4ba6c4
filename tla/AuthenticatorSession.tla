------------------------- MODULE AuthenticatorSession -------------------------
(***************************************************************************)
(* The sessions between apps and authenticators: AppAccountAuthenticator-  *)
(* SessionManager, the sessions it keeps in sessionMap_, and the selection *)
(* of accounts by their labels, a session that asks the authenticator of   *)
(* one account after the other in a session of its own.                    *)
(*                                                                         *)
(* Every event of a session (its ability is connected, the authenticator   *)
(* answers, redirects, continues or dies) looks the session up under       *)
(* mutex_ of the manager and is then handled outside of it, by a thread of *)
(* its own that keeps the session alive (run): events of one session are   *)
(* handled in any order, and after the session is closed.  A session is    *)
(* destroyed when it is closed and no thread handles it.                   *)
(*                                                                         *)
(* Every request is made once and has a callback.  The kind of a request,  *)
(* what it is about and the account that ADD_ACCOUNT_IMPLICITLY adds       *)
(* (AppAccount) are left out.                                              *)
(*                                                                         *)
(* Faults: "open" no authenticator, "connect" an ability that the ability  *)
(* manager refuses to connect, "proxy" an ability without a proxy, "ask" a *)
(* request that the authenticator does not get.                            *)
(***************************************************************************)
EXTENDS Integers, FiniteSets

CONSTANTS
    Plain,       \* requests for one authenticator
    Select,      \* SelectAccountsByOptions with labels
    Candidates,  \* of every selection, the number of accounts to be asked
    MaxSessions, \* SESSION_MAX_NUM
    Answers,     \* what an authenticator may answer
    SessionFaults, \* which steps may fail
    Nobody       \* nobody

ASSUME AuthenticatorSessionConstants ==
    /\ Candidates \in [Select -> Nat] /\ MaxSessions \in Nat \ {0}
    /\ Answers \subseteq {"yes8", "yes9", "no", "error"}
    /\ SessionFaults \subseteq {"open", "connect", "proxy", "ask"}
    /\ Plain \cap Select = {} /\ Nobody \notin Plain \cup Select

Index == UNION {1..Candidates[q] : q \in Select}
Sub == {s \in Select \X Index : s[2] <= Candidates[s[1]]}
Client == Plain \cup Select   \* sessions with an app as their client
Session == Client \cup Sub
Served == Plain \cup Sub      \* sessions with an authenticator

\* The id of a session is its own.
ASSUME SessionsAreDistinct == Client \cap Sub = {} /\ Nobody \notin Sub

VARIABLES
    made,      \* requests that were made
    open,      \* sessionMap_
    mgr,       \* the selection that holds mutex_ of the manager
    flag,      \* isConnected_ of every session
    run,       \* handlers at work: session, what it does, and the answer
    sel,       \* AppAccountCheckLabelsCallback of every selection
    peer,      \* the ability of every session, an authenticator
    answered,  \* how often the client of a selection was answered
    dead,      \* clients that died, or lost the service (history)
    said       \* sessions whose authenticator confirmed the labels (history)

sessionVars == <<made, open, mgr, flag, run, sel, peer, answered, dead, said>>

\* The states of an ability in which it is connected.
Up == {"up", "asked", "redirected", "answered"}

Callback == [pc : {"none", "free", "check", "send"}, by : Sub \cup {Nobody},
             index : Index \cup {i + 1 : i \in Index} \cup {1}, requesting : BOOLEAN,
             labelled : SUBSET Index]

NoCallback == [pc |-> "none", by |-> Nobody, index |-> 1, requesting |-> FALSE,
               labelled |-> {}]

SessionInit ==
    /\ made = {} /\ open = {} /\ mgr = Nobody /\ run = {}
    /\ flag = [s \in Served |-> FALSE]
    /\ sel = [q \in Select |-> NoCallback]
    /\ peer = [s \in Served |-> "none"]
    /\ answered = [q \in Select |-> 0]
    /\ dead = {} /\ said = {}

-----------------------------------------------------------------------------
SessionOutcome(kind) == {TRUE} \cup (IF kind \in SessionFaults THEN {FALSE} ELSE {})

\* No limit of the sessions.
FullNever == FALSE

Full == Cardinality(open) >= MaxSessions

Handler(s, do, ans) == [s |-> s, do |-> do, ans |-> ans]

\* A session that is destroyed without Close.
KeepConnected(S, R, f, a) ==
    /\ open' = S /\ run' = R
    /\ flag' = f /\ peer' = a

\* The sessions are S now; those that are closed and that no handler of R keeps
\* are destroyed: Close removes the death recipients and disconnects the
\* ability if f says that it is connected.
Keep(S, R, f, a) ==
    LET gone == {s \in open \cup {h.s : h \in run} :
                   s \notin S /\ s \notin {h.s : h \in R}}
    IN  /\ open' = S /\ run' = R
        /\ flag' = [s \in Served |-> s \notin gone /\ f[s]]
        /\ peer' = [s \in Served |-> IF s \in gone /\ f[s] THEN "none"
                                                         ELSE a[s]]

-----------------------------------------------------------------------------
\* OpenSession for Authenticate, Auth, VerifyCredential and the others: the
\* ability is asked for by a thread of its own.  A client that is dead already
\* gets no death recipient: it is one that never dies here.
OpenSession(p) ==
    /\ p \notin made /\ mgr = Nobody
    /\ made' = made \cup {p}
    /\ \E ok \in SessionOutcome("open") :
           IF Full \/ ~ok
           THEN UNCHANGED <<open, peer>>
           ELSE /\ open' = open \cup {p}
                /\ peer' = [peer EXCEPT ![p] = "connecting"]
    /\ UNCHANGED <<mgr, flag, run, sel, answered, dead, said>>

\* SelectAccountsByOptions: CheckLabels is called with mutex_ held.
SelectAccountsByOptions(q) ==
    /\ q \notin made /\ mgr = Nobody /\ ~Full
    /\ made' = made \cup {q}
    /\ open' = open \cup {q}
    /\ mgr' = q
    /\ sel' = [sel EXCEPT ![q].pc = "check"]
    /\ UNCHANGED <<flag, run, peer, answered, dead, said>>

\* The manager is full, Open was not called and the session has no callback:
\* the service crashes.  The client is told by its own death recipient.
SelectCrash(q) ==
    /\ q \notin made /\ mgr = Nobody /\ Full
    /\ made' = made \cup {q}
    /\ open' = {} /\ run' = {}
    /\ flag' = [s \in Served |-> FALSE]
    /\ sel' = [r \in Select |-> NoCallback]
    /\ peer' = [s \in Served |-> "none"]
    /\ dead' = dead \cup {q} \cup (open \cap Client)
    /\ UNCHANGED <<mgr, answered, said>>

\* One turn of the loop of CheckLabels: the session for the next account; an
\* account whose session is refused is passed over.  The mutex of the callback
\* is held from here on until the loop ends.
CheckLabels(q) ==
    LET i == sel[q].index
        s == <<q, i>>
        end == [sel[q] EXCEPT !.pc = "free", !.by = Nobody,
                              !.requesting = TRUE]
    IN  /\ sel[q].pc = "check" /\ mgr \in {Nobody, q}
        /\ \E ok \in SessionOutcome("open") :
               IF i > Candidates[q]
               THEN /\ sel' = [sel EXCEPT ![q].pc = "send"]
                    /\ UNCHANGED <<open, peer, mgr>>
               ELSE IF Full \/ ~ok
               THEN /\ sel' = [sel EXCEPT ![q].index = i + 1]
                    /\ UNCHANGED <<open, peer, mgr>>
               ELSE /\ open' = open \cup {s}
                    /\ peer' = [peer EXCEPT ![s] = "connecting"]
                    /\ sel' = [sel EXCEPT ![q] = end]
                    /\ mgr' = Nobody
        /\ UNCHANGED <<made, flag, run, answered, dead, said>>

\* The session is closed before the result is sent to it.
SendResultClosed(q) ==
    /\ sel[q].pc = "send" /\ mgr \in {Nobody, q}
    /\ Keep(open \ {q}, run, flag, peer)
    /\ sel' = [sel EXCEPT ![q].pc = "free", ![q].by = Nobody]
    /\ mgr' = Nobody
    /\ UNCHANGED <<made, answered, dead, said>>

\* SendResult: the client is answered, unless the session is gone, and the
\* session is closed.
SendResult(q) ==
    /\ sel[q].pc = "send" /\ mgr \in {Nobody, q}
    /\ answered' = [answered EXCEPT ![q] = IF q \in open THEN @ + 1 ELSE @]
    /\ Keep(open \ {q}, run, flag, peer)
    /\ sel' = [sel EXCEPT ![q].pc = "free", ![q].by = Nobody]
    /\ mgr' = Nobody
    /\ UNCHANGED <<made, dead, said>>

-----------------------------------------------------------------------------
\* An event of session s: the session is looked up, and handled later.  What
\* happens to the authenticator and the client of a session that is not there
\* has no effect and is left out.
Event(s, do, ans) ==
    run' = IF s \in open THEN run \cup {Handler(s, do, ans)} ELSE run

\* The ability is there, whether or not there still is a session.
AbilityConnected(s) ==
    /\ peer[s] = "connecting" /\ mgr = Nobody
    /\ peer' = [peer EXCEPT ![s] = "up"]
    /\ Event(s, "connected", Nobody)
    /\ UNCHANGED <<made, open, mgr, flag, sel, answered, dead, said>>

\* ConnectAbility returns an error, which nobody looks at: there will be no
\* callback, and the session is not told.
ConnectAbilityFails(s) ==
    /\ "connect" \in SessionFaults /\ peer[s] = "connecting"
    /\ peer' = [peer EXCEPT ![s] = "refused"]
    /\ UNCHANGED <<made, open, mgr, flag, run, sel, answered, dead, said>>

\* The authenticator answers, once.
AuthenticatorAnswers(s) ==
    /\ s \in open /\ peer[s] \in {"asked", "redirected"} /\ mgr = Nobody
    /\ \E ans \in Answers :
           /\ Event(s, "result", ans)
           /\ said' = IF s \in Sub /\ ans \in {"yes8", "yes9"}
                      THEN said \cup {s} ELSE said
    /\ peer' = [peer EXCEPT ![s] = "answered"]
    /\ UNCHANGED <<made, open, mgr, flag, sel, answered, dead>>

\* It redirects the request to another ability or continues it, once.  Other
\* clients are told and the session goes on, which changes nothing here.
AuthenticatorRedirects(s) ==
    /\ s \in Sub \cap open /\ peer[s] = "asked" /\ mgr = Nobody
    /\ Event(s, "redirect", Nobody)
    /\ peer' = [peer EXCEPT ![s] = "redirected"]
    /\ UNCHANGED <<made, open, mgr, flag, sel, answered, dead, said>>

AuthenticatorDies(s) ==
    /\ s \in open /\ peer[s] \in Up \ {"up"} /\ mgr = Nobody
    /\ Event(s, "result", "error")
    /\ peer' = [peer EXCEPT ![s] = "down"]
    /\ UNCHANGED <<made, open, mgr, flag, sel, answered, dead, said>>

\* OnAbilityDisconnectDone, for an authenticator that died.
OnAbilityDisconnectDone(s) ==
    /\ s \in open /\ peer[s] = "down" /\ flag[s] /\ mgr = Nobody
    /\ flag' = [flag EXCEPT ![s] = FALSE]
    /\ UNCHANGED <<made, open, mgr, run, sel, peer, answered, dead, said>>

\* The death recipient of a client closes the session at once.
ClientDies(c) ==
    /\ c \in open /\ mgr = Nobody
    /\ Keep(open \ {c}, run, flag, peer)
    /\ dead' = dead \cup {c}
    /\ UNCHANGED <<made, mgr, sel, answered, said>>

-----------------------------------------------------------------------------
\* OnAbilityConnectDone: the authenticator gets the request, or the session
\* ends with an error.
OnAbilityConnectDone(h) ==
    LET s == h.s
        f == [flag EXCEPT ![s] = TRUE]
    IN  /\ h.do = "connected"
        /\ \E ok \in SessionOutcome("proxy") \cap SessionOutcome("ask") :
               IF ok
               THEN Keep(open, run \ {h}, f, [peer EXCEPT ![s] = "asked"])
               ELSE Keep(open, (run \ {h}) \cup {Handler(s, "result", "error")},
                         f, peer)
        /\ UNCHANGED <<made, mgr, sel, answered, dead, said>>

\* Taken without a look at the name in the answer.
TakenAnyName(q, s, ans) ==
    LET next == [sel[q] EXCEPT !.requesting = FALSE, !.by = s, !.pc = "check",
                               !.index = @ + 1,
                               !.labelled = IF ans \in {"yes8", "yes9"}
                                            THEN @ \cup {sel[q].index} ELSE @]
    IN  IF ~sel[q].requesting
        THEN sel[q]
        ELSE IF ans = "error"
        THEN [sel[q] EXCEPT !.requesting = FALSE, !.by = s, !.pc = "send"]
        ELSE next

\* The callback of a selection: an answer is taken for the account that is
\* asked at the moment, from whichever session it comes.
Taken(q, s, ans) ==
    LET i == sel[q].index
        yes == ans = "yes8" \/ (ans = "yes9" /\ s = <<q, i>>)
        next == [sel[q] EXCEPT !.requesting = FALSE, !.by = s, !.pc = "check",
                               !.index = i + 1,
                               !.labelled = IF yes THEN @ \cup {i} ELSE @]
    IN  IF ~sel[q].requesting
        THEN sel[q]
        ELSE IF ans = "error"
        THEN [sel[q] EXCEPT !.requesting = FALSE, !.by = s, !.pc = "send"]
        ELSE next

\* OnResult tells the client, which for a session of a selection is the
\* callback of the selection ...
OnResult(h) ==
    LET s == h.s
    IN  /\ h.do = "result"
        /\ IF s \in Plain
           THEN UNCHANGED sel
           ELSE /\ sel[s[1]].pc = "free"
                /\ sel' = [sel EXCEPT ![s[1]] = Taken(s[1], s, h.ans)]
        /\ Keep(open, (run \ {h}) \cup {Handler(s, "close", Nobody)}, flag, peer)
        /\ UNCHANGED <<made, mgr, answered, dead, said>>

\* OnResult that leaves the session to its client.
OnResultStays(h) ==
    LET s == h.s
    IN  /\ h.do = "close" /\ mgr = Nobody
        /\ s \in Sub => sel[s[1]].by # s
        /\ Keep(open, run \ {h}, flag,
                [peer EXCEPT ![s] = IF flag[s] THEN "none" ELSE @])
        /\ UNCHANGED <<made, mgr, sel, answered, dead, said>>

\* ... and then disconnects the ability and closes the session.
OnResultClose(h) ==
    LET s == h.s
    IN  /\ h.do = "close" /\ mgr = Nobody
        /\ s \in Sub => sel[s[1]].by # s
        /\ Keep(open \ {s}, run \ {h}, flag,
                [peer EXCEPT ![s] = IF flag[s] THEN "none" ELSE @])
        /\ UNCHANGED <<made, mgr, sel, answered, dead, said>>

\* OnRequestRedirected and OnRequestContinued: a selection goes on with the
\* next account, and the session stays.
OnRequestRedirected(h) ==
    LET s == h.s
    IN  /\ h.do = "redirect" /\ sel[s[1]].pc = "free"
        /\ sel' = [sel EXCEPT ![s[1]] = Taken(s[1], s, "no")]
        /\ Keep(open, run \ {h}, flag, peer)
        /\ UNCHANGED <<made, mgr, answered, dead, said>>

-----------------------------------------------------------------------------
Handle(h) ==
    \/ OnAbilityConnectDone(h)
    \/ OnResult(h)
    \/ OnResultClose(h)
    \/ OnRequestRedirected(h)

SessionNext ==
    \/ \E p \in Plain : OpenSession(p)
    \/ \E q \in Select : \/ SelectAccountsByOptions(q)
                         \/ SelectCrash(q)
                         \/ CheckLabels(q)
                         \/ SendResult(q)
    \/ \E s \in Served : \/ AbilityConnected(s)
                         \/ ConnectAbilityFails(s)
                         \/ AuthenticatorAnswers(s)
                         \/ AuthenticatorRedirects(s)
                         \/ AuthenticatorDies(s)
                         \/ OnAbilityDisconnectDone(s)
    \/ \E c \in Client : ClientDies(c)
    \/ \E h \in run : Handle(h)

SessionSpec == SessionInit /\ [][SessionNext]_sessionVars

\* A handler that has not to wait for a selection or for mutex_.
Runs(h) ==
    \/ h.do = "connected"
    \/ h.do \in {"result", "redirect"} /\ (h.s \in Sub => sel[h.s[1]].pc = "free")
    \/ h.do = "close" /\ mgr = Nobody /\ (h.s \in Sub => sel[h.s[1]].by # h.s)

\* What happens sooner or later has happened: no thread of the service can go
\* on, the ability manager has connected or refused every ability, and every
\* authenticator that was asked has answered or died.  Every request is made once, so that
\* all behaviours come to such an end.
Quiet ==
    /\ \A q \in Select : sel[q].pc \in {"check", "send"} => mgr \notin {Nobody, q}
    /\ \A h \in run : ~Runs(h)
    /\ mgr = Nobody =>
          /\ \A s \in Served : peer[s] # "connecting"
          /\ \A s \in Served \cap open : peer[s] \notin Up \ {"up"}

-----------------------------------------------------------------------------
SessionTypeOK ==
    /\ made \subseteq Client
    /\ open \subseteq Session /\ Cardinality(open) <= MaxSessions
    /\ mgr \in Select \cup {Nobody}
    /\ flag \in [Served -> BOOLEAN]
    /\ run \subseteq [s : Served, do : {"connected", "result", "redirect",
                                        "close"}, ans : Answers \cup
                                        {"error", Nobody}]
    /\ sel \in [Select -> Callback]
    /\ peer \in [Served -> {"none", "connecting", "refused", "down"} \cup Up]
    /\ answered \in [Select -> Nat]
    /\ dead \subseteq Client /\ said \subseteq Sub

\* A selection is answered exactly once before it is closed, unless its client
\* dies, however many answers, redirections and deaths its sessions meet and in
\* whatever order they are handled; a session with one authenticator makes no
\* such promise (an answer and the death of the authenticator may both reach
\* the client).
SelectionAnsweredOnce ==
    \A q \in Select :
        /\ answered[q] <= 1
        /\ q \in made \ open => answered[q] = 1 \/ q \in dead

\* No ability stays connected for a session that knew it was connected and is
\* closed: OnResult, or the destruction of the session, disconnects it.
ConnectedIsReleased ==
    \A s \in Served :
        flag[s] /\ peer[s] \in Up => s \in open \cup {h.s : h \in run}

\* An account that is reported to have the labels was confirmed by its own
\* authenticator, though the late answer of a redirected one is taken while
\* the next account is asked: AppAccountCheckLabelsCallback::OnResultAPI9
\* compares the names (OnResultAPI8 has none to compare, and fails).
LabelledIsConfirmed ==
    \A q \in Select : \A i \in sel[q].labelled : <<q, i>> \in said

\* A refused ability is the one thing that keeps a session in sessionMap_:
\* when nothing is left to do all the others are closed, also those whose
\* client is dead or whose request was redirected, and those of a selection
\* that went on without them.  The session of a refused ability stays, whether
\* or not its client lives on, and so does a selection that waits for one.
ClosedWhenIdle ==
    Quiet => \A s \in open :
        \/ s \in Served /\ peer[s] = "refused"
        \/ /\ s \in Select /\ sel[s].requesting
           /\ <<s, sel[s].index>> \in open /\ peer[<<s, sel[s].index>>] = "refused"
=============================================================================
