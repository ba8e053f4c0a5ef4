------------------------------ MODULE Sessions ------------------------------
(***************************************************************************)
(* The refresh tokens of one user (app/routes/auth.py, app/core/auth.py    *)
(* and the table refresh_tokens).  A login begins a session; every refresh *)
(* revokes the token it is given and issues the next one of the session.   *)
(*                                                                         *)
(* The handlers await nothing, so a runner has one of them at a time; each *)
(* database block is a transaction of its own, and what interleaves is the *)
(* transactions of several runners.                                        *)
(***************************************************************************)
EXTENDS Naturals

CONSTANTS
    Host,      \* runner processes that serve the API
    Token,     \* bound: rows that can ever be inserted
    NewLogin   \* stands for the session that a login is about to begin

ASSUME SessionsAssumption == NewLogin \notin Token

VARIABLES
    enabled,   \* is_active of the user and of the organisation
    issued,    \* the tokens that have a row
    lapsed,    \* those whose expires_at has passed
    revoked,   \* those with a revoked_at
    session,   \* of each token, the first token of its session
    refresh,   \* what the handler that runs on each host does next
    closed,    \* history: sessions that a logout ended
    raced      \* history: sessions in which something happened during a refresh

sessionVars == <<enabled, issued, lapsed, revoked, session, refresh, closed, raced>>

Rest == [do |-> "rest"]

SessionsInit ==
    /\ enabled = TRUE /\ issued = {} /\ lapsed = {} /\ revoked = {}
    /\ session = [t \in Token |-> t] /\ refresh = [h \in Host |-> Rest]
    /\ closed = {} /\ raced = {}

Does(h, step) == refresh' = [refresh EXCEPT ![h] = step]

(* The sessions that handlers are refreshing, but for h.                    *)
Refreshing(h) == {refresh[g].session : g \in {i \in Host \ {h} : refresh[i].do # "rest"}}

-----------------------------------------------------------------------------
(* login: the credentials are looked up, and then a token is inserted.      *)
Login(h) ==
    /\ refresh[h] = Rest /\ enabled
    /\ Does(h, [do |-> "issue", session |-> NewLogin])
    /\ UNCHANGED <<enabled, issued, lapsed, revoked, session, closed, raced>>

(* A mutant of Accepted: a token may be used until it expires.              *)
AcceptedOnceIssued(t) == t \in issued \ lapsed /\ enabled

Accepted(t) == t \in issued \ (lapsed \cup revoked) /\ enabled

(* verify_and_rotate_refresh_token: the token is looked up and checked ...  *)
FindToken(h, t) ==
    /\ refresh[h] = Rest /\ Accepted(t)
    /\ Does(h, [do |-> "revoke", token |-> t, session |-> session[t]])
    /\ raced' = raced \cup ({session[t]} \cap Refreshing(h))
    /\ UNCHANGED <<enabled, issued, lapsed, revoked, session, closed>>

(* ... revoked by id, whatever has become of it ...                         *)
RevokeToken(h) ==
    /\ refresh[h].do = "revoke"
    /\ revoked' = revoked \cup {refresh[h].token}
    /\ Does(h, [do |-> "issue", session |-> refresh[h].session])
    /\ UNCHANGED <<enabled, issued, lapsed, session, closed, raced>>

(* ... and create_refresh_token inserts the next, as it does for a login.   *)
IssueToken(h) ==
    /\ refresh[h].do = "issue"
    /\ \E t \in Token \ issued :
          /\ issued' = issued \cup {t}
          /\ session' = [session EXCEPT ![t] = IF refresh[h].session = NewLogin THEN t
                                               ELSE refresh[h].session]
    /\ Does(h, Rest)
    /\ UNCHANGED <<enabled, lapsed, revoked, closed, raced>>

(* logout, with a token that is not revoked yet; with another it has no     *)
(* effect.                                                                  *)
Logout(h, t) ==
    /\ refresh[h] = Rest /\ t \in issued \ revoked
    /\ revoked' = revoked \cup {t}
    /\ closed' = closed \cup {session[t]}
    /\ raced' = raced \cup ({session[t]} \cap Refreshing(h))
    /\ UNCHANGED <<enabled, issued, lapsed, session, refresh>>

Lapse(t) ==
    /\ t \in issued \ lapsed /\ lapsed' = lapsed \cup {t}
    /\ UNCHANGED <<enabled, issued, revoked, session, refresh, closed, raced>>

(* An administrator changes is_active of the user or the organisation.      *)
AccountChanges ==
    /\ enabled' = ~enabled
    /\ UNCHANGED <<issued, lapsed, revoked, session, refresh, closed, raced>>

HostDies(h) ==
    /\ refresh[h] # Rest /\ Does(h, Rest)
    /\ UNCHANGED <<enabled, issued, lapsed, revoked, session, closed, raced>>

SessionsNext ==
    \/ \E h \in Host :
         \/ Login(h)
         \/ \E t \in Token : FindToken(h, t)
         \/ RevokeToken(h)
         \/ IssueToken(h)
         \/ \E t \in Token : Logout(h, t)
         \/ HostDies(h)
    \/ \E t \in Token : Lapse(t)
    \/ AccountChanges

SessionsSpec == SessionsInit /\ [][SessionsNext]_sessionVars

-----------------------------------------------------------------------------
(* Types; a session is one of a token that was issued.                      *)
SessionsTypeOK ==
    /\ \A t \in issued : session[t] \in issued
    /\ enabled \in BOOLEAN /\ issued \subseteq Token
    /\ lapsed \subseteq issued /\ revoked \subseteq issued
    /\ session \in [Token -> Token] /\ closed \subseteq issued /\ raced \subseteq issued
    /\ refresh \in [Host -> {Rest}
                            \cup [do : {"revoke"}, token : issued, session : issued]
                            \cup [do : {"issue"}, session : issued \cup {NewLogin}]]

Live == issued \ revoked

(* A session has one live token at most, and none once its user has logged  *)
(* out, however often it is refreshed, on whichever runners, and wherever a *)
(* refresh is cut off; unless a refresh or a logout came during a refresh   *)
(* of the same session ("Refresh tokens are single-use (rotated on every    *)
(* /auth/refresh call)", app/routes/auth.py:14).  A logout is one that has  *)
(* revoked its token: one that fails is swallowed and changes nothing.      *)
OneLiveToken ==
    \A t \in Live : session[t] \notin raced =>
        /\ session[t] \notin closed
        /\ \A u \in Live : session[u] = session[t] => u = t

(* What the code does not keep; no run lists these.  Two refreshes at the   *)
(* same time both find the token unrevoked, and a logout during a refresh   *)
(* does not stop the next token.                                            *)
SingleUse == \A t, u \in Live : session[t] = session[u] => t = u
LogoutIsFinal == \A t \in Live : session[t] \notin closed
=============================================================================
