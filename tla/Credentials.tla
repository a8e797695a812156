------------------------------ MODULE Credentials ------------------------------
(***************************************************************************)
(* One OAuth connection and the workflow nodes that use it:                *)
(* CredentialInjectionService (modules/auth) as CatalogNodeExecutor and    *)
(* DispatchNodeUseCase (execution_engine) call it, next to the user who    *)
(* reconnects or revokes.                                                  *)
(*                                                                         *)
(* An access token is represented by the hour in which it really expires;  *)
(* the row has the hour the program believes in.  Nodes of one level run   *)
(* in parallel, each attempt of a node with a database session of its own, *)
(* and an attempt may take hours.  An exchange of a code for a token takes *)
(* less than an hour; the risk level and service checks are left out.      *)
(***************************************************************************)
EXTENDS Naturals

CONSTANTS Nodes,
          Life,       \* hours a token lives
          Skew,       \* TOKEN_REFRESH_SKEW_SECONDS
          MaxAttempt, \* max_retries of the RetryPolicy
          MaxHour,    \* bound of the clock
          Unknown     \* access_token_expires_at is NULL

ASSUME CredentialsAssumption ==
  /\ Life \in Nat \ {0} /\ Skew \in Nat /\ MaxAttempt \in Nat /\ MaxHour \in Nat
  /\ Unknown \notin Nat

VARIABLES hour,
          tells,    \* the provider's answers carry expires_in
          conn,     \* the row of oauth_connections
          node      \* Nodes -> the attempt under way

credentialVars == <<hour, tells, conn, node>>

Hours == 0 .. MaxHour + Life

Conn == [access : Hours, refresh : BOOLEAN, expires : Hours \cup {Unknown},
         active : BOOLEAN]

Expiry(h) == IF tells THEN h + Life ELSE Unknown

FreshAttempt == [pc |-> "start", attempt |-> 0, now |-> 0, token |-> 0,
                 refresh |-> FALSE, expires |-> Unknown]

CredentialsInit ==
  /\ hour = 0 /\ tells \in BOOLEAN
  /\ conn \in [access : {Life}, refresh : BOOLEAN, active : {TRUE},
               expires : {Unknown, Expiry(0)}]    \* Unknown: a row of the time before
  /\ node = [n \in Nodes |-> FreshAttempt]

Attempt(n, x) == node' = [node EXCEPT ![n] = x]

Failed(n) == [FreshAttempt EXCEPT !.pc = "failed", !.attempt = node[n].attempt]

(* needs_token_refresh of what the attempt read.                           *)
NeedsRefresh(now) ==
  /\ conn.refresh
  /\ conn.expires = Unknown \/ conn.expires <= now + Skew

(* inject, _resolve_oauth: an inactive connection fails the node.          *)
Resolve(n) ==
  LET read == [node[n] EXCEPT !.now = hour, !.token = conn.access,
                              !.refresh = conn.refresh, !.expires = conn.expires] IN
  /\ node[n].pc = "start"
  /\ Attempt(n, CASE ~conn.active -> Failed(n)
                  [] conn.active /\ NeedsRefresh(hour) -> [read EXCEPT !.pc = "refresh"]
                  [] OTHER -> [read EXCEPT !.pc = "process"])
  /\ UNCHANGED <<hour, tells, conn>>

(* Fault: a refresh that failed is never fatal.                            *)
RefreshBestEffort(n) ==
  /\ node[n].pc = "refresh"
  /\ \/ Attempt(n, [node[n] EXCEPT !.pc = "store", !.token = hour + Life])
     \/ Attempt(n, [node[n] EXCEPT !.pc = "process"])
  /\ UNCHANGED <<hour, tells, conn>>

(* The provider issues a token now.  Without one (no client, an error, an  *)
(* answer without a token) a token known to be expired fails the node, and *)
(* any other is used as it is.                                             *)
RefreshAccessToken(n) ==
  LET x == node[n] IN
  /\ x.pc = "refresh"
  /\ \/ Attempt(n, [x EXCEPT !.pc = "store", !.token = hour + Life])
     \/ Attempt(n, IF x.expires # Unknown /\ x.expires <= x.now
                   THEN Failed(n) ELSE [x EXCEPT !.pc = "process"])
  /\ UNCHANGED <<hour, tells, conn>>

(* Fault: the attempts are not counted.                                    *)
RaiseForever(n) ==
  \/ Attempt(n, Failed(n))
  \/ Attempt(n, [FreshAttempt EXCEPT !.attempt = node[n].attempt + 1])

(* An error whose class is retryable starts the node over: it resolves     *)
(* the credential again.                                                   *)
Raise(n) ==
  \/ Attempt(n, Failed(n))
  \/ /\ node[n].attempt < MaxAttempt
     /\ Attempt(n, [FreshAttempt EXCEPT !.attempt = node[n].attempt + 1])

(* Fault: the lifetime is counted from the answer on.                      *)
StoreTokensLate(n) ==
  /\ node[n].pc = "store"
  /\ \/ /\ conn' = [conn EXCEPT !.access = node[n].token,
                                !.expires = IF tells THEN hour + Life ELSE @]
        /\ Attempt(n, [node[n] EXCEPT !.pc = "process"])
     \/ Raise(n) /\ UNCHANGED conn
  /\ UNCHANGED <<hour, tells>>

(* update_tokens and the commit: token and expiry, counted from the time   *)
(* before the request, in one UPDATE, whatever the row says by now.        *)
StoreTokens(n) ==
  /\ node[n].pc = "store"
  /\ \/ /\ conn' = [conn EXCEPT !.access = node[n].token,
                                !.expires = IF tells THEN node[n].now + Life ELSE @]
        /\ Attempt(n, [node[n] EXCEPT !.pc = "process"])
     \/ Raise(n) /\ UNCHANGED conn
  /\ UNCHANGED <<hour, tells>>

(* process() of the node with the token, which is wiped afterwards.        *)
Process(n) ==
  /\ node[n].pc = "process"
  /\ Attempt(n, [FreshAttempt EXCEPT !.pc = "succeeded", !.attempt = node[n].attempt]) \/ Raise(n)
  /\ UNCHANGED <<hour, tells, conn>>

(* CompleteConnectionUseCase for an active connection; an answer without a *)
(* refresh token leaves the stored one.                                    *)
Reconnect ==
  /\ conn.active /\ hour < MaxHour
  /\ \E refresh \in {conn.refresh, TRUE} :
       conn' = [conn EXCEPT !.access = hour + Life, !.expires = Expiry(hour),
                            !.refresh = refresh]
  /\ UNCHANGED <<hour, tells, node>>

(* RevokeConnectionUseCase; a later connection is a row of its own.        *)
Revoke ==
  /\ conn.active /\ conn' = [conn EXCEPT !.active = FALSE]
  /\ UNCHANGED <<hour, tells, node>>

HourPasses ==
  /\ hour < MaxHour /\ hour' = hour + 1
  /\ UNCHANGED <<tells, conn, node>>

CredentialsNext ==
  \/ HourPasses \/ Reconnect \/ Revoke
  \/ \E n \in Nodes : Resolve(n) \/ RefreshAccessToken(n) \/ StoreTokens(n) \/ Process(n)

CredentialsSpec == CredentialsInit /\ [][CredentialsNext]_credentialVars

-----------------------------------------------------------------------------
CredentialsTypeOK ==
  /\ hour \in 0 .. MaxHour /\ tells \in BOOLEAN /\ conn \in Conn
  /\ node \in [Nodes ->
       [pc : {"start", "refresh", "store", "process", "succeeded", "failed"},
        attempt : 0 .. MaxAttempt, now : 0 .. MaxHour, token : Hours,
        refresh : BOOLEAN, expires : Hours \cup {Unknown}]]

(* However refreshes and reconnects overtake each other, the row never     *)
(* claims that its token lives longer than it does.                        *)
ExpiryIsHonest == conn.expires # Unknown => conn.expires <= conn.access

(* A node that could have refreshed its token, and was told when it        *)
(* expires, is never given one that had expired when it asked.             *)
FreshWhenInjected ==
  \A n \in Nodes :
    node[n].pc = "process" /\ node[n].refresh /\ node[n].expires # Unknown
      => node[n].token > node[n].now
=============================================================================
