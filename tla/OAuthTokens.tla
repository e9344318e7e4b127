---------------------------- MODULE OAuthTokens -----------------------------
(***************************************************************************)
(* The OAuth sessions of one user at one provider: get_oauth_token of      *)
(* OAuthClientManager ("mcp": the newest session of the user) and of       *)
(* OAuthManager ("login": the session a browser's cookie names), and the   *)
(* callbacks that store a new session and prune the older ones.            *)
(*                                                                         *)
(* Everything runs on the event loop of one process and yields only while  *)
(* it talks to the provider.  A refresh token is a number: the provider    *)
(* accepts the current one of a session and, when it rotates, replaces it. *)
(* Sessions are numbered in the order of their creation.                   *)
(***************************************************************************)
EXTENDS Integers, FiniteSets

CONSTANTS
  Request,      \* calls of get_oauth_token under way
  Limit,        \* OAUTH_MAX_SESSIONS_PER_USER
  MaxSessions,  \* bound on sessions created
  MaxTokens,    \* bound on the refresh tokens of a session
  NoRow         \* no row

ASSUME OAuthAssumption ==
  /\ Limit \in Nat \ {0} /\ MaxSessions \in Nat /\ MaxTokens \in Nat \ {0}
  /\ NoRow \notin [refresh : Nat, fresh : BOOLEAN]

Sessions == 1..MaxSessions

VARIABLES
  manager,   \* which of the two managers
  rotating,  \* the provider replaces a refresh token when it is used
  current,   \* [Sessions -> refresh token the provider accepts]
  row,       \* [Sessions -> oauth_session row, or NoRow]
  created,   \* sessions created so far
  call,      \* [Request -> state of the call]
  lost       \* sessions whose rotated token was never stored

oauthVars == <<manager, rotating, current, row, created, call, lost>>

Row == [refresh : 0..MaxTokens, fresh : BOOLEAN]  \* refresh 0: none granted

Idle == [pc |-> "idle", session |-> 0, token |-> 0, got |-> 0]

Call ==
  [ pc      : {"idle", "metadata", "post", "answered", "refused"},
    session : 0..MaxSessions,  \* the session it read
    token   : 0..MaxTokens,    \* the refresh token it read
    got     : 0..MaxTokens ]   \* the refresh token of the answer

OAuthTypeOK ==
  /\ manager \in {"mcp", "login"}
  /\ rotating \in BOOLEAN
  /\ current \in [Sessions -> 1..MaxTokens]
  /\ row \in [Sessions -> Row \cup {NoRow}]
  /\ created \in 0..MaxSessions
  /\ call \in [Request -> Call]
  /\ lost \subseteq Sessions

OAuthInit ==
  /\ manager \in {"mcp", "login"}
  /\ rotating \in BOOLEAN
  /\ current = [s \in Sessions |-> 1]
  /\ row = [s \in Sessions |-> NoRow]
  /\ created = 0
  /\ call = [r \in Request |-> Idle]
  /\ lost = {}

Stored == {s \in Sessions : row[s] # NoRow}

Newer(s, S) == {t \in S : t > s}

(***************************************************************************)
(* Callbacks.  The token exchange has been awaited; the rest does not      *)
(* yield.  An answer without an expiry cannot be stored, and create_session*)
(* then returns None after the older sessions are gone.                    *)
(***************************************************************************)
\* Mutant of Keep: no room for the new session.
KeepLimit == IF manager = "mcp" THEN 0 ELSE Limit

\* How many of the sessions there are a callback keeps.
Keep == IF manager = "mcp" THEN 0 ELSE Limit - 1

Pruned == {s \in Stored : Cardinality(Newer(s, Stored)) >= Keep}

\* A session is stored with its expiry; the provider may grant no refresh token.
NewRow(granted) == [refresh |-> IF granted THEN 1 ELSE 0, fresh |-> TRUE]

Callback(granted, expiry) ==
  /\ created < MaxSessions
  /\ created' = created + 1
  /\ row' = [s \in Sessions |->
               IF s = created + 1 /\ expiry
                 THEN NewRow(granted)
                 ELSE IF s \in Pruned THEN NoRow ELSE row[s]]
  /\ UNCHANGED <<manager, rotating, current, call, lost>>

(***************************************************************************)
(* get_oauth_token reads the session.  A missing session and a fresh token *)
(* end the call at once, without a change.                                 *)
(***************************************************************************)
Readable(s) ==
  /\ row[s] # NoRow
  /\ manager = "mcp" => Newer(s, Stored) = {}

End(r) == call' = [call EXCEPT ![r] = Idle]

\* Mutant of Discard: all sessions at the provider are deleted.
DiscardAll(r, s) ==
  /\ row' = [t \in Sessions |-> NoRow]
  /\ End(r)
  /\ UNCHANGED <<manager, rotating, current, created, lost>>

\* The session is deleted by its id.
Discard(r, s) ==
  /\ row' = [row EXCEPT ![s] = NoRow]
  /\ End(r)
  /\ UNCHANGED <<manager, rotating, current, created, lost>>

\* A token without a refresh token cannot be refreshed.
Begin(r, s) ==
  /\ call[r].pc = "idle"
  /\ Readable(s) /\ ~row[s].fresh
  /\ IF row[s].refresh = 0
       THEN Discard(r, s)
       ELSE /\ call' = [call EXCEPT ![r] =
                         [pc |-> "metadata", session |-> s, token |-> row[s].refresh, got |-> 0]]
            /\ UNCHANGED <<manager, rotating, current, row, created, lost>>

\* The OpenID configuration names the token endpoint.
Metadata(r) ==
  /\ call[r].pc = "metadata"
  /\ call' = [call EXCEPT ![r].pc = "post"]
  /\ UNCHANGED <<manager, rotating, current, row, created, lost>>

MetadataFails(r) ==
  /\ call[r].pc = "metadata"
  /\ Discard(r, call[r].session)

(***************************************************************************)
(* The provider handles the POST.                                          *)
(***************************************************************************)
Accept(r) ==
  LET s == call[r].session
  IN  /\ call[r].pc = "post"
      /\ call[r].token = current[s]
      /\ rotating => current[s] < MaxTokens
      /\ LET new == IF rotating THEN current[s] + 1 ELSE current[s]
         IN  /\ current' = [current EXCEPT ![s] = new]
             /\ call' = [call EXCEPT ![r] =
                          [pc |-> "answered", session |-> s, token |-> @.token, got |-> new]]
      /\ UNCHANGED <<manager, rotating, row, created, lost>>

Refuse(r) ==
  /\ call[r].pc = "post"
  /\ call[r].token # current[call[r].session]
  /\ call' = [call EXCEPT ![r].pc = "refused"]
  /\ UNCHANGED <<manager, rotating, current, row, created, lost>>

(***************************************************************************)
(* The answer.  The merge keeps the old refresh token when the answer has  *)
(* none, which is that of a provider that does not rotate.                 *)
(***************************************************************************)
\* Mutant of Merge: the old token wins.
MergeOld(c) == c.token

Merge(c) == c.got

\* _refresh_token stores the answer by id: a row that is gone stays gone.
Store(r) ==
  LET s == call[r].session
  IN  /\ call[r].pc = "answered"
      /\ row' = [row EXCEPT ![s] = IF @ = NoRow THEN NoRow
                                   ELSE [refresh |-> Merge(call[r]), fresh |-> TRUE]]
      /\ End(r)
      /\ UNCHANGED <<manager, rotating, current, created, lost>>

\* The update fails: the answer has no expiry, or the database an error.  The
\* handler's own error leaves the old row in place.
StoreFails(r) ==
  /\ call[r].pc = "answered"
  /\ End(r)
  /\ lost' = lost \cup {call[r].session}
  /\ UNCHANGED <<manager, rotating, current, row, created>>

\* A refusal, or an answer lost on its way.
RefreshFails(r) ==
  /\ call[r].pc \in {"answered", "refused", "post"}
  /\ Discard(r, call[r].session)

\* The request's task is cancelled at an await.
Cancel(r) ==
  /\ call[r].pc # "idle"
  /\ End(r)
  /\ lost' = IF call[r].pc = "answered" THEN lost \cup {call[r].session} ELSE lost
  /\ UNCHANGED <<manager, rotating, current, row, created>>

\* The token comes within five minutes of its expiry.
Expire(s) ==
  /\ row[s] # NoRow /\ row[s].fresh
  /\ row' = [row EXCEPT ![s] = [refresh |-> @.refresh, fresh |-> FALSE]]
  /\ UNCHANGED <<manager, rotating, current, created, call, lost>>

Step(r) ==
  \/ \E s \in Sessions : Begin(r, s)
  \/ Metadata(r) \/ MetadataFails(r)
  \/ Accept(r) \/ Refuse(r)
  \/ Store(r) \/ StoreFails(r) \/ RefreshFails(r)
  \/ Cancel(r)

OAuthNext ==
  \/ \E granted, expiry \in BOOLEAN : Callback(granted, expiry)
  \/ \E s \in Sessions : Expire(s)
  \/ \E r \in Request : Step(r)

OAuthSpec == OAuthInit /\ [][OAuthNext]_oauthVars

-----------------------------------------------------------------------------
(***************************************************************************)
(* Properties.                                                             *)
(***************************************************************************)
\* The refresh token that is stored is one the provider still accepts, except
\* while the answer that replaces it is on its way, or after such an answer
\* could not be stored.  Calls overlap freely, and each writes back the answer
\* to what it read.  (_refresh_token)
TokenUsable ==
  \A s \in Stored \ lost :
    \/ row[s].refresh \in {0, current[s]}
    \/ \E r \in Request : /\ call[r].pc = "answered"
                          /\ call[r].session = s
                          /\ call[r].got = current[s]

\* However sign-ins and failed refreshes follow each other, the user holds no
\* more sessions than the limit: one for the MCP client, the configured number
\* for sign-ins.  (handle_callback of both managers)
WithinLimit == Cardinality(Stored) <= IF manager = "mcp" THEN 1 ELSE Limit

\* A refresh that began before the user signed in again does not take the new
\* session away when it fails: apart from callbacks, a session only goes with
\* a call that has read it.  (get_oauth_token deletes by id)
ReauthorisedStays ==
  [][\A s \in Stored :
       row'[s] = NoRow =>
         \/ created' # created
         \/ row[s].refresh = 0
         \/ \E r \in Request : call[r].session = s /\ call'[r] = Idle]_oauthVars

\* "Refresh an OAuth token if needed, with concurrency protection": a call the
\* provider refused leaves a session alone that another call has renewed.
ConcurrencyProtected ==
  [][\A r \in Request :
       call[r].pc = "refused" =>
         LET s == call[r].session
         IN  s \in Stored /\ row[s].refresh = current[s] => row'[s] # NoRow]_oauthVars
=============================================================================
