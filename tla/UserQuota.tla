----------------------------- MODULE UserQuota -----------------------------
(***************************************************************************)
(* The users page of the console: the quota of one user, edited in a       *)
(* dialog and stored by the balancer, while the user signs in and another  *)
(* administrator edits the same row.                                       *)
(*                                                                         *)
(* A row is the tier and one of its four limits, -1 for none; the others,  *)
(* and the other tiers, are treated like these.                            *)
(***************************************************************************)
EXTENDS Integers

CONSTANTS
  UserReads,    \* calls of getUsers that may be under way at once (bound)
  QuotaCalls,   \* calls of updateUserQuota and deleteUser under way (bound)
  MaxSignIns    \* bound: sign-ins of the user

ASSUME SignInsAssumption == MaxSignIns \in Nat

VARIABLES
  account,      \* the row of the user, NoAccount once it is deleted
  users,        \* the row the page lists, NoAccount while it lists none
  usersRead,    \* usersRead[k]: [at, row]
  refreshing,   \* the refresh button is disabled
  quotaOpen,    \* the dialog is open
  quota,        \* what the dialog holds while it is open
  quotaCall,    \* quotaCall[c]: [at, row], the row asked for or NoAccount to delete
  signIn,       \* the row a sign-in has read, or NoAccount
  lastAsked,    \* the row asked for by the update of this row that was stored last
  reverted,     \* a sign-in has written an older row since
  signIns       \* sign-ins so far

quotaVars == <<account, users, usersRead, refreshing, quotaOpen, quota, quotaCall,
               signIn, lastAsked, reverted, signIns>>

Unlimited == -1
LimitRange == {-1, 0, 1, 2}
Tier == {"free", "custom"}
Account == [tier : Tier, limit : LimitRange]
NoAccount == [tier |-> "none", limit |-> 0]

(* DefaultTiers, the same in the console and in the balancer.              *)
DefaultTiers ==
  [t \in Tier |-> IF t = "free" THEN 1 ELSE Unlimited]

Preset(t) == [tier |-> t, limit |-> DefaultTiers[t]]

NoUserCall == [at |-> "idle", row |-> NoAccount]

QuotaTypeOK ==
  /\ {account, users, signIn, lastAsked} \subseteq Account \cup {NoAccount}
  /\ quota \in Account
  /\ usersRead \in [UserReads -> [at : {"idle", "sent", "read"}, row : Account \cup {NoAccount}]]
  /\ {refreshing, quotaOpen, reverted} \subseteq BOOLEAN
  /\ signIns \in 0..MaxSignIns
  /\ quotaCall \in [QuotaCalls -> [at : {"idle", "update", "delete", "done"},
                                   row : Account \cup {NoAccount}]]

QuotaInit ==
  /\ account = Preset("free") /\ users = NoAccount
  /\ usersRead = [k \in UserReads |-> NoUserCall]
  /\ refreshing = FALSE /\ quotaOpen = FALSE /\ quota = Preset("custom")
  /\ quotaCall = [c \in QuotaCalls |-> NoUserCall]
  /\ signIn = NoAccount /\ lastAsked = NoAccount /\ reverted = FALSE
  /\ signIns = 0

-----------------------------------------------------------------------------
(* The balancer.                                                           *)

(* HandleV1UserUpdateQuota: the preset of the tier, then the limits that   *)
(* are given, which from this page are all of them.                        *)
Stored(asked) == [Preset(asked.tier) EXCEPT !.limit = asked.limit]

HandleUserUpdateQuota(c) ==
  /\ quotaCall[c].at = "update" /\ account # NoAccount
  /\ account' = Stored(quotaCall[c].row)
  /\ lastAsked' = quotaCall[c].row /\ reverted' = FALSE
  /\ quotaCall' = [quotaCall EXCEPT ![c].at = "done"]
  /\ UNCHANGED <<users, usersRead, refreshing, quotaOpen, quota, signIn, signIns>>

HandleUserDelete(c) ==
  /\ quotaCall[c].at = "delete"
  /\ account' = NoAccount /\ quotaCall' = [quotaCall EXCEPT ![c].at = "done"]
  /\ UNCHANGED <<users, usersRead, refreshing, quotaOpen, quota, signIn,
                 lastAsked, reverted, signIns>>

(* A sign-in reads the row and writes all of it back, with the claims of   *)
(* the identity provider; that changes nothing when the user was deleted   *)
(* meanwhile.  A user who has no row gets a new one, of the free tier.     *)
SignInReads ==
  /\ signIn = NoAccount /\ account # NoAccount /\ signIn' = account
  /\ signIns < MaxSignIns /\ signIns' = signIns + 1
  /\ UNCHANGED <<account, users, usersRead, refreshing, quotaOpen, quota,
                 quotaCall, lastAsked, reverted>>

SignInWrites ==
  /\ signIn # NoAccount /\ signIn' = NoAccount
  /\ account' = IF account = NoAccount THEN NoAccount ELSE signIn
  /\ reverted' = (reverted \/ account' # account)
  /\ UNCHANGED <<users, usersRead, refreshing, quotaOpen, quota, quotaCall, lastAsked, signIns>>

SignUp ==
  /\ account = NoAccount /\ signIns < MaxSignIns /\ signIns' = signIns + 1
  /\ account' = Preset("free") /\ lastAsked' = NoAccount
  /\ UNCHANGED <<users, usersRead, refreshing, quotaOpen, quota, quotaCall, signIn, reverted>>

HandleUsers(k) ==
  /\ usersRead[k].at = "sent"
  /\ usersRead' = [usersRead EXCEPT ![k] = [at |-> "read", row |-> account]]
  /\ UNCHANGED <<account, users, refreshing, quotaOpen, quota, quotaCall, signIn,
                 lastAsked, reverted, signIns>>

-----------------------------------------------------------------------------
(* The page.                                                               *)

RefreshingUsers ==
  /\ \E k \in UserReads : /\ usersRead[k].at = "idle"
                          /\ \A j \in UserReads : j < k => usersRead[j].at # "idle"
                          /\ usersRead' = [usersRead EXCEPT ![k].at = "sent"]
  /\ refreshing' = TRUE

RefreshUsers ==
  /\ ~refreshing /\ RefreshingUsers
  /\ UNCHANGED <<account, users, quotaOpen, quota, quotaCall, signIn, lastAsked, reverted, signIns>>

UsersArrive(k) ==
  /\ usersRead[k].at = "read"
  /\ users' = usersRead[k].row /\ refreshing' = FALSE
  /\ usersRead' = [usersRead EXCEPT ![k] = NoUserCall]
  /\ UNCHANGED <<account, quotaOpen, quota, quotaCall, signIn, lastAsked, reverted, signIns>>

UsersFail(k) ==
  /\ usersRead[k].at # "idle" /\ refreshing' = FALSE
  /\ usersRead' = [usersRead EXCEPT ![k] = NoUserCall]
  /\ UNCHANGED <<account, users, quotaOpen, quota, quotaCall, signIn, lastAsked, reverted, signIns>>

Dialog == UNCHANGED <<account, users, usersRead, refreshing, quotaCall, signIn,
                      lastAsked, reverted, signIns>>

UserShown   == ~quotaOpen /\ users # NoAccount
QuotaDialog == quotaOpen

OpenQuotaDialog ==
  UserShown /\ quotaOpen' = TRUE /\ quota' = users /\ Dialog

CloseQuotaDialog ==
  QuotaDialog /\ quotaOpen' = FALSE /\ quota' = Preset("custom") /\ Dialog

(* "Custom" is a preset like the others, and lifts every limit.            *)
ApplyTier(t) == QuotaDialog /\ quota' = Preset(t) /\ UNCHANGED quotaOpen /\ Dialog

(* What parseInt(...) || -1 makes of a number that is typed.               *)
Parsed(typed) == IF typed = 0 THEN Unlimited ELSE typed

(* Fault: the tier is kept while a limit of it is changed.                 *)
TypeLimitOnly(typed) ==
  /\ QuotaDialog /\ UNCHANGED quotaOpen /\ Dialog
  /\ quota' = [quota EXCEPT !.limit = Parsed(typed)]

TypeLimit(typed) ==
  /\ QuotaDialog /\ UNCHANGED quotaOpen /\ Dialog
  /\ quota' = [tier |-> "custom", limit |-> Parsed(typed)]

Asks(what, row) ==
  \E c \in QuotaCalls : /\ quotaCall[c].at = "idle"
                        /\ \A d \in QuotaCalls : d < c => quotaCall[d].at # "idle"
                        /\ quotaCall' = [quotaCall EXCEPT ![c] = [at |-> what, row |-> row]]

(* The button is not disabled while an earlier update is under way.        *)
HandleUpdateQuota ==
  /\ QuotaDialog /\ Asks("update", quota)
  /\ UNCHANGED <<account, users, usersRead, refreshing, quotaOpen, quota, signIn,
                 lastAsked, reverted, signIns>>

DeleteUser ==
  /\ UserShown /\ Asks("delete", NoAccount)
  /\ UNCHANGED <<account, users, usersRead, refreshing, quotaOpen, quota, signIn,
                 lastAsked, reverted, signIns>>

(* An update closes the dialog that is open by then, whatever it holds.    *)
QuotaStored(c) ==
  /\ quotaCall[c].at = "done" /\ RefreshingUsers
  /\ IF quotaCall[c].row = NoAccount THEN UNCHANGED <<quotaOpen, quota>>
     ELSE quotaOpen' = FALSE /\ quota' = Preset("custom")
  /\ quotaCall' = [quotaCall EXCEPT ![c] = NoUserCall]
  /\ UNCHANGED <<account, users, signIn, lastAsked, reverted, signIns>>

QuotaFails(c) ==
  /\ quotaCall[c].at # "idle" /\ quotaCall' = [quotaCall EXCEPT ![c] = NoUserCall]
  /\ UNCHANGED <<account, users, usersRead, refreshing, quotaOpen, quota, signIn,
                 lastAsked, reverted, signIns>>

-----------------------------------------------------------------------------
QuotaNext ==
  \/ RefreshUsers \/ OpenQuotaDialog \/ CloseQuotaDialog \/ HandleUpdateQuota
  \/ DeleteUser \/ SignInReads \/ SignInWrites \/ SignUp
  \/ \E k \in UserReads : HandleUsers(k) \/ UsersArrive(k) \/ UsersFail(k)
  \/ \E t \in Tier : ApplyTier(t)
  \/ \E typed \in {0, 2} : TypeLimit(typed)
  \/ \E c \in QuotaCalls : \/ HandleUserUpdateQuota(c) \/ HandleUserDelete(c)
                           \/ QuotaStored(c) \/ QuotaFails(c)

QuotaSpec == QuotaInit /\ [][QuotaNext]_quotaVars

-----------------------------------------------------------------------------
(* Properties.                                                             *)

(* A tier other than "custom" means the limits of that tier, in the row,   *)
(* in the list and in the dialog, through edits, stale rows and sign-ins;  *)
(* and the row is what the update stored last asked for, unless a sign-in  *)
(* that had read an older row wrote it back.                               *)
TierHonest ==
  /\ \A row \in {account, users, quota, signIn} \ {NoAccount} :
       row.tier # "custom" => row.limit = DefaultTiers[row.tier]
  /\ lastAsked # NoAccount /\ account # NoAccount /\ ~reverted => account = lastAsked
=============================================================================
