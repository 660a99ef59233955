--------------------------- MODULE GoogleCalendar ---------------------------
(***************************************************************************)
(* The connection to Google Calendar of one user                           *)
(* (src/src/integrations/google-calendar.ts): OAuth states of one use in   *)
(* one table, the credentials in another, and requests that talk to Google *)
(* between their reads and their writes.  A token stands for the           *)
(* authorization it was granted by.  Google, which answers or refuses, is  *)
(* outside; a request that fails or whose process dies just ends.          *)
(***************************************************************************)
EXTENDS Naturals

CONSTANTS
    Authorizations,   \* the attempts to connect, each with its random state
    NoAuthorization,
    Calls             \* the requests in flight at once, on whatever process

ASSUME GoogleAssumption == NoAuthorization \notin Authorizations

VARIABLES
    pending,      \* cortex_google_calendar_oauth_states
    expired,      \* those whose ten minutes are over
    begun,        \* the authorizations handed out so far
    credentials,  \* the row of cortex_google_calendar_credentials, or NoCredentials
    call,         \* call[c]: where the request is, and what it works with
    ended         \* history: the authorizations whose tokens or states a disconnect erased

googleVars == <<pending, expired, begun, credentials, call, ended>>

NoCredentials == [access |-> NoAuthorization, refresh |-> NoAuthorization, fresh |-> FALSE]

Credentials == [access : Authorizations, refresh : Authorizations, fresh : BOOLEAN]

Waiting == [pc |-> "idle", for |-> NoAuthorization, rows |-> {}]

Connected == credentials # NoCredentials

\* A callback waits for the transaction of `begin` that deletes its state.
Locked(a) == \E c \in Calls : call[c].pc = "begin" /\ a \in call[c].rows

GoogleInit ==
    /\ pending = {}
    /\ expired = {}
    /\ begun = {}
    /\ credentials = NoCredentials
    /\ call = [c \in Calls |-> Waiting]
    /\ ended = {}

Step(c, pc, a, rows) == call' = [call EXCEPT ![c] = [pc |-> pc, for |-> a, rows |-> rows]]

----------------------------------------------------------------------------
(* begin: one transaction of a DELETE and an INSERT *)

BeginAuthorization(c, a) ==
    /\ call[c].pc = "idle"
    /\ a \notin begun
    /\ begun' = begun \cup {a}
    /\ Step(c, "begin", a, pending)
    /\ UNCHANGED <<pending, expired, credentials, ended>>

CommitAuthorization(c) ==
    /\ call[c].pc = "begin"
    /\ pending' = (pending \ call[c].rows) \cup {call[c].for}
    /\ call' = [call EXCEPT ![c] = Waiting]
    /\ UNCHANGED <<expired, begun, credentials, ended>>

----------------------------------------------------------------------------
(* finish: the callback of the link, be it opened once or several times *)

\* DELETE ... RETURNING; the row of an expired state is deleted for nothing.
Callback(c, a) ==
    /\ call[c].pc = "idle"
    /\ a \in pending
    /\ ~Locked(a)
    /\ pending' = pending \ {a}
    /\ IF a \in expired THEN call' = call ELSE Step(c, "exchange", a, {})
    /\ UNCHANGED <<expired, begun, credentials, ended>>

\* Google answers with both tokens: INSERT ... ON CONFLICT DO UPDATE.
StoreTokens(c) ==
    /\ call[c].pc = "exchange"
    /\ credentials' = [access |-> call[c].for, refresh |-> call[c].for, fresh |-> TRUE]
    /\ call' = [call EXCEPT ![c] = Waiting]
    /\ UNCHANGED <<pending, expired, begun, ended>>

----------------------------------------------------------------------------
(* accessToken, before any list of events *)

\* An access token with less than 90 seconds left is renewed with the refresh token.
RequestRefresh(c) ==
    /\ call[c].pc = "idle"
    /\ Connected
    /\ ~credentials.fresh
    /\ Step(c, "refresh", credentials.refresh, {})
    /\ UNCHANGED <<pending, expired, begun, credentials, ended>>

Fault_RefreshInserts(row, a) == [access |-> a, refresh |-> a, fresh |-> TRUE]

\* UPDATE ... WHERE user_id: whatever row is there gets the token, and no row is made.
Renewed(row, a) ==
    IF row = NoCredentials THEN row ELSE [row EXCEPT !.access = a, !.fresh = TRUE]

StoreAccess(c) ==
    /\ call[c].pc = "refresh"
    /\ credentials' = Renewed(credentials, call[c].for)
    /\ call' = [call EXCEPT ![c] = Waiting]
    /\ UNCHANGED <<pending, expired, begun, ended>>

----------------------------------------------------------------------------
(* disconnect: two statements, each on its own *)

DeleteCredentials(c) ==
    /\ call[c].pc = "idle"
    /\ credentials' = NoCredentials
    /\ ended' = ended \cup (IF Connected THEN {credentials.refresh} ELSE {})
    /\ Step(c, "disconnect", NoAuthorization, {})
    /\ UNCHANGED <<pending, expired, begun>>

DeleteStates(c) ==
    /\ call[c].pc = "disconnect"
    /\ pending' = {}
    /\ ended' = ended \cup pending
    /\ call' = [call EXCEPT ![c] = Waiting]
    /\ UNCHANGED <<expired, begun, credentials>>

----------------------------------------------------------------------------
(* Failures and time *)

\* Google refuses, a query fails or the process dies: what was not committed is gone.
GiveUp(c) ==
    /\ call[c].pc # "idle"
    /\ call' = [call EXCEPT ![c] = Waiting]
    /\ UNCHANGED <<pending, expired, begun, credentials, ended>>

StateExpires(a) ==
    /\ a \in pending \ expired
    /\ expired' = expired \cup {a}
    /\ UNCHANGED <<pending, begun, credentials, call, ended>>

AccessExpires ==
    /\ Connected
    /\ credentials.fresh
    /\ credentials' = [credentials EXCEPT !.fresh = FALSE]
    /\ UNCHANGED <<pending, expired, begun, call, ended>>

GoogleNext ==
    \/ \E c \in Calls :
         \/ \E a \in Authorizations : BeginAuthorization(c, a) \/ Callback(c, a)
         \/ CommitAuthorization(c)
         \/ StoreTokens(c)
         \/ RequestRefresh(c)
         \/ StoreAccess(c)
         \/ DeleteCredentials(c)
         \/ DeleteStates(c)
         \/ GiveUp(c)
    \/ \E a \in Authorizations : StateExpires(a)
    \/ AccessExpires

GoogleSpec == GoogleInit /\ [][GoogleNext]_googleVars

----------------------------------------------------------------------------
(* Properties *)

\* One type invariant.
GoogleTypeOK ==
    /\ pending \subseteq Authorizations
    /\ expired \subseteq Authorizations
    /\ begun \subseteq Authorizations
    /\ credentials \in Credentials \cup {NoCredentials}
    /\ call \in [Calls -> [pc : {"idle", "begin", "exchange", "refresh", "disconnect"},
                           for : Authorizations \cup {NoAuthorization},
                           rows : SUBSET Authorizations]]
    /\ \A c \in Calls : call[c].pc \in {"begin", "exchange", "refresh"} =>
                          call[c].for \in Authorizations
    /\ ended \subseteq Authorizations

\* What a disconnection erased never comes back: an old link does not connect the user, and
\* the late answer to a refresh does not restore a refresh token.  It is silent on what is in
\* no table when the disconnection runs: an authorization whose code is being exchanged does
\* connect the user again, and a late refresh may
\* put an access token of the erased connection in the row of a new one.
ErasedStaysErased == ended \cap (pending \cup {credentials.refresh}) = {}
=============================================================================
