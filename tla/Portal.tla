------------------------------- MODULE Portal -------------------------------
(***************************************************************************)
(* Who the console takes its user for: the frame asks once, when it is     *)
(* loaded (getMe); the public portal verifies a token that is typed or was *)
(* saved in the browser (getMeWithToken).  The balancer answers with the   *)
(* user of the session cookie, if there is one, and else with the owner of *)
(* the token (AuthMiddleware).                                             *)
(***************************************************************************)
EXTENDS Naturals

CONSTANTS
  PortalTokens, \* tokens that are typed
  Owner,        \* Owner[t]: the owner of token t, or Nobody
  Nobody,
  Oidc,         \* the balancer has an identity provider
  Verifications,\* calls of getMeWithToken that may be under way at once (bound)
  MaxSignOns    \* bound: sessions

ASSUME PortalAssumption ==
  /\ Nobody \notin PortalTokens /\ MaxSignOns \in Nat /\ Oidc \in BOOLEAN
  /\ Verifications \subseteq Nat
  /\ DOMAIN Owner = PortalTokens

VARIABLES
  session,      \* the browser holds a valid session cookie
  signOns,      \* sessions so far
  frame,        \* "loading", "guest" or "user": what getMe said
  route,        \* the page that is shown: "/" or "/portal"
  oidcShown,    \* what the landing page knows of the identity provider
  saved,        \* MY_PORTAL_TOKEN of the browser, or Nobody
  typed,        \* the token in the field, or Nobody
  identity,     \* the identity the portal shows, or Nobody
  verifying,    \* the button is disabled
  verification, \* verification[v]: [at, token, who], who once it is answered
  overlapped    \* two verifications of this page were under way at once

portalVars == <<session, signOns, frame, route, oidcShown, saved, typed, identity,
                verifying, verification, overlapped>>

SessionUser == "session"
NoVerification == [at |-> "idle", token |-> Nobody, who |-> Nobody]
Owners == {Owner[t] : t \in PortalTokens} \ {Nobody}
Idle == {v \in Verifications : verification[v] = NoVerification}

PortalTypeOK ==
  /\ {session, verifying, overlapped} \subseteq BOOLEAN /\ signOns \in 0..MaxSignOns
  /\ frame \in {"loading", "guest", "user"} /\ route \in {"/", "/portal"}
  /\ oidcShown \in {"unknown", "yes", "no"}
  /\ {saved, typed} \subseteq PortalTokens \cup {Nobody}
  /\ identity \in Owners \cup {SessionUser, Nobody}
  /\ verification \in [Verifications ->
       [at : {"idle", "saved", "asked"}, token : PortalTokens \cup {Nobody},
        who : Owners \cup {SessionUser, Nobody}]]

PortalInit ==
  /\ session = FALSE /\ signOns = 0 /\ frame = "loading" /\ route = "/"
  /\ oidcShown = "unknown" /\ saved = Nobody /\ typed = Nobody /\ identity = Nobody
  /\ verifying = FALSE /\ overlapped = FALSE
  /\ verification = [v \in Verifications |-> NoVerification]

-----------------------------------------------------------------------------
(* The frame.                                                              *)

(* A page is shown afresh; calls of an earlier one no longer count.  The   *)
(* portal verifies the token that was saved.                               *)
Shows(r) ==
  /\ route' = r /\ typed' = saved /\ identity' = Nobody /\ verifying' = FALSE
  /\ overlapped' = FALSE
  /\ LET first == CHOOSE v \in Verifications : \A w \in Verifications : v <= w
     IN  verification' = [v \in Verifications |->
           IF r = "/portal" /\ saved # Nobody /\ v = first
           THEN [at |-> "saved", token |-> saved, who |-> Nobody] ELSE NoVerification]

(* getMe is answered, or fails: nothing of a page is shown before.  (An    *)
(* administrator is sent on to the overview.)                              *)
FrameLoaded ==
  /\ frame = "loading"
  /\ \/ session /\ frame' = "user"
     \/ frame' = "guest"
  /\ Shows(route) /\ UNCHANGED <<session, signOns, oidcShown, saved>>

Navigate(r) ==
  /\ frame # "loading" /\ route # r /\ Shows(r)
  /\ oidcShown' = "unknown" /\ UNCHANGED <<session, signOns, frame, saved>>

InfoArrives ==
  /\ frame # "loading" /\ route = "/" /\ oidcShown = "unknown"
  /\ oidcShown' = IF Oidc THEN "yes" ELSE "no"
  /\ UNCHANGED <<session, signOns, frame, route, saved, typed, identity, verifying,
                 verification, overlapped>>

Reload == frame' = "loading" /\ oidcShown' = "unknown" /\ Shows("/") /\ UNCHANGED saved

(* /auth/login comes back with a cookie, and with "/".                     *)
SignInOffered == route = "/portal" \/ oidcShown # "no"

SignOn ==
  /\ frame # "loading" /\ SignInOffered /\ Oidc
  /\ signOns < MaxSignOns /\ signOns' = signOns + 1 /\ session' = TRUE
  /\ Reload

SignOutShown == frame = "user"

SignOut == SignOutShown /\ session' = FALSE /\ Reload /\ UNCHANGED signOns

(* The cookie expires, a week after it was set.                            *)
SessionEnds ==
  /\ session /\ session' = FALSE
  /\ UNCHANGED <<signOns, frame, route, oidcShown, saved, typed, identity, verifying,
                 verification, overlapped>>

-----------------------------------------------------------------------------
(* The portal.                                                             *)

OnPortal == frame # "loading" /\ route = "/portal"

TypeToken(t) ==
  /\ OnPortal /\ typed # t /\ typed' = t
  /\ UNCHANGED <<session, signOns, frame, route, oidcShown, saved, identity,
                 verifying, verification, overlapped>>

(* fetchIdentity saves the token before it is verified.  The button waits  *)
(* for verifying, the Enter key does not.                                  *)
FetchIdentity ==
  /\ OnPortal /\ typed # Nobody /\ Idle # {}
  /\ saved' = typed /\ verifying' = TRUE
  /\ overlapped' = (overlapped \/ Idle # Verifications)
  /\ LET v == CHOOSE x \in Idle : \A w \in Idle : x <= w
     IN  verification' = [verification EXCEPT ![v] =
           [at |-> "asked", token |-> typed, who |-> Nobody]]
  /\ UNCHANGED <<session, signOns, frame, route, oidcShown, typed, identity>>

(* HandleV1Me.                                                             *)
HandleMe(v) ==
  /\ verification[v] # NoVerification /\ verification[v].who = Nobody
  /\ LET who == IF session THEN SessionUser ELSE Owner[verification[v].token]
     IN  /\ who # Nobody
         /\ verification' = [verification EXCEPT ![v].who = who]
  /\ UNCHANGED <<session, signOns, frame, route, oidcShown, saved, typed, identity,
                 verifying, overlapped>>

IdentityArrives(v) ==
  /\ OnPortal /\ verification[v].who # Nobody
  /\ identity' = verification[v].who
  /\ verifying' = (verifying /\ verification[v].at = "saved")
  /\ verification' = [verification EXCEPT ![v] = NoVerification]
  /\ UNCHANGED <<session, signOns, frame, route, oidcShown, saved, typed, overlapped>>

(* A token is refused, or the call fails.  Only of a token that was typed  *)
(* is anything said.                                                       *)
IdentityFails(v) ==
  /\ OnPortal /\ verification[v] # NoVerification
  /\ verification' = [verification EXCEPT ![v] = NoVerification]
  /\ IF verification[v].at = "asked" THEN identity' = Nobody /\ verifying' = FALSE
     ELSE UNCHANGED <<identity, verifying>>
  /\ UNCHANGED <<session, signOns, frame, route, oidcShown, saved, typed, overlapped>>

-----------------------------------------------------------------------------
PortalNext ==
  \/ FrameLoaded \/ InfoArrives \/ SignOn \/ SignOut \/ SessionEnds \/ FetchIdentity
  \/ \E r \in {"/", "/portal"} : Navigate(r)
  \/ \E t \in PortalTokens : TypeToken(t)
  \/ \E v \in Verifications : HandleMe(v) \/ IdentityArrives(v) \/ IdentityFails(v)

PortalSpec == PortalInit /\ [][PortalNext]_portalVars

-----------------------------------------------------------------------------
(* Properties.                                                             *)

(* When no verification is under way, the identity that is shown is the    *)
(* user of a session or the owner of the token that is saved, never of one *)
(* tried before: a refused token leaves none.  The one way round it is two *)
(* verifications at once, whose answers came in the wrong order.           *)
IdentityShown ==
  Idle = Verifications /\ ~overlapped /\ identity \notin {Nobody, SessionUser} =>
    saved # Nobody /\ identity = Owner[saved]
=============================================================================
