----------------------------- MODULE Providers -----------------------------
(***************************************************************************)
(* The row of a mechanic or garage as discovery sees it: made at           *)
(* registration (backend/app/services/auth_service.py), edited by its      *)
(* owner (api/v1/providers.py, api/v1/profile.py) and by the admins        *)
(* (api/v1/admin.py: verification, KYC review, penalties).                 *)
(*                                                                         *)
(* A handler reads the row in its first step and commits in its second     *)
(* the columns it has changed.                                             *)
(***************************************************************************)
EXTENDS FiniteSets, Orm

CONSTANTS
  Mechanics,
  Garages,
  AutoVerify,      \* settings.dev_auto_verify_providers
  ProviderCalls    \* requests that can be in flight

Providers == Mechanics \cup Garages

ASSUME ProvidersAssumption ==
  /\ Mechanics \cap Garages = {} /\ None \notin Providers
  /\ AutoVerify \in BOOLEAN

VARIABLES
  providers,      \* mechanics, garages; NoProvider where nobody has registered
  providerCalls,  \* requests between their read and their commit
  granted,        \* what the last committed decision on a provider said
  unseen,         \* providers with photos that no review has been made after
  crossed         \* two requests on the row of a provider have overlapped

providersVars == <<providers, providerCalls, granted, unseen, crossed>>

KycStatus == {"pending", "submitted", "verified", "rejected"}
ProviderRow ==
  [verified : BOOLEAN, kyc_status : KycStatus, kyc_note : {None, "reason"},
   penalized : BOOLEAN, available : BOOLEAN]
NoProvider == [verified |-> FALSE, kyc_status |-> "pending", kyc_note |-> None,
               penalized |-> FALSE, available |-> FALSE]
Resting == [op |-> "idle", id |-> None, changes |-> << >>]
\* What list_kyc shows the admins.
Queue == {p \in Providers : providers[p].kyc_status \in {"pending", "submitted"}}

Decisions == {"verify", "approve", "reject"}

ProvidersTypeOK ==
  /\ providers \in [Providers -> ProviderRow]
  /\ \A c \in ProviderCalls :
       /\ providerCalls[c].op \in Decisions \cup {"idle", "toggle", "profile", "penalize"}
       /\ DOMAIN providerCalls[c].changes \subseteq DOMAIN NoProvider
  /\ granted \in [Providers -> BOOLEAN]
  /\ unseen \subseteq Providers /\ crossed \subseteq Providers

\* register_mechanic, register_garage and oauth_google: a garage has no column
\* "available", it always is.
Registered(photos) ==
  [NoProvider EXCEPT !.verified = AutoVerify, !.available = TRUE,
                     !.kyc_status = IF photos THEN "submitted" ELSE "pending"]

ProvidersInit ==
  /\ unseen \in SUBSET Providers
  /\ providers = [p \in Providers |-> Registered(p \in unseen)]
  /\ providerCalls = [c \in ProviderCalls |-> Resting]
  /\ granted = [p \in Providers |-> AutoVerify]
  /\ crossed = {}

------------------------------------------------------------------------------
(* The handlers: what they make of the row they have read.                 *)

Edit(c, op, p, edited) ==
  /\ providerCalls[c] = Resting
  /\ providerCalls' = [providerCalls EXCEPT ![c] =
       [op |-> op, id |-> p, changes |-> OrmChanges(providers[p], edited)]]
  /\ crossed' = crossed \cup {q \in {p} : \E d \in ProviderCalls : providerCalls[d].id = q}
  /\ UNCHANGED <<providers, granted, unseen>>

ToggleAvailability(c, p, available) ==
  /\ p \in Mechanics
  /\ Edit(c, "toggle", p, [providers[p] EXCEPT !.available = available])

\* PUT /profile/me with photos, which reopens an application only where none is
\* under review.
UploadPhotos(c, p) ==
  LET row == providers[p] IN
  Edit(c, "profile", p, IF row.kyc_status \in {"pending", "rejected"}
                        THEN [row EXCEPT !.kyc_status = "submitted", !.kyc_note = None]
                        ELSE row)

\* verify_mechanic, verify_garage: the KYC status is not theirs.
Verify(c, p, verified) == Edit(c, "verify", p, [providers[p] EXCEPT !.verified = verified])

Approve(c, p, note) ==
  Edit(c, "approve", p,
       [providers[p] EXCEPT !.kyc_status = "verified", !.verified = TRUE, !.kyc_note = note])

\* Defect variant: a rejection leaves the flag that discovery looks at.
Reject_FlagOnly(c, p, note) ==
  Edit(c, "reject", p, [providers[p] EXCEPT !.kyc_status = "rejected", !.kyc_note = note])

\* The two actions of review_kyc.
Reject(c, p, note) ==
  Edit(c, "reject", p,
       [providers[p] EXCEPT !.kyc_status = "rejected", !.verified = FALSE, !.kyc_note = note])

\* penalize_provider, for the provider of the disputed job.
Penalize(c, p) == Edit(c, "penalize", p, [providers[p] EXCEPT !.penalized = TRUE])

CommitProvider(c) ==
  LET call == providerCalls[c]
      p    == call.id
  IN
  /\ call # Resting
  /\ providers' = [providers EXCEPT ![p] = OrmFlush(@, call.changes)]
  /\ granted' = [granted EXCEPT ![p] =
       CASE call.op = "approve" -> TRUE
         [] call.op = "reject"  -> FALSE
         [] call.op = "verify" /\ "verified" \in DOMAIN call.changes -> call.changes.verified
         [] OTHER -> @]
  /\ unseen' = CASE call.op = "profile" -> unseen \cup {p}
                 [] call.op \in {"approve", "reject"} -> unseen \ {p}
                 [] OTHER -> unseen
  /\ providerCalls' = [providerCalls EXCEPT ![c] = Resting]
  /\ UNCHANGED crossed

ProviderCallFails(c) ==
  /\ providerCalls[c] # Resting
  /\ providerCalls' = [providerCalls EXCEPT ![c] = Resting]
  /\ UNCHANGED <<providers, granted, unseen, crossed>>

AdminDecides(c, p) ==
  \/ \E verified \in BOOLEAN : Verify(c, p, verified)
  \/ \E note \in {None, "reason"} : Approve(c, p, note) \/ Reject(c, p, note)
  \/ Penalize(c, p)

ProvidersNext ==
  \E c \in ProviderCalls :
    \/ \E p \in Providers :
         \/ \E available \in BOOLEAN : ToggleAvailability(c, p, available)
         \/ UploadPhotos(c, p)
         \/ AdminDecides(c, p)
    \/ CommitProvider(c)
    \/ ProviderCallFails(c)

ProvidersSpec == ProvidersInit /\ [][ProvidersNext]_providersVars

------------------------------------------------------------------------------
(* Properties.                                                             *)

\* No request of the provider, however stale the row it had read, undoes what an
\* admin decided: the verification changes only when a decision commits, and a
\* penalty stays.
AdminDecisionsStand ==
  [][\A p \in Providers :
       /\ providers'[p].verified # providers[p].verified =>
            \E c \in ProviderCalls :
              providerCalls[c].id = p /\ providerCalls[c].op \in Decisions /\ providerCalls'[c] = Resting
       /\ providers[p].penalized => providers'[p].penalized]_providersVars

\* As long as the requests on its row did not overlap, a provider is discoverable
\* exactly when the last decision on it said so, and photos that came after the
\* last review are in the queue of list_kyc unless the provider has been approved
\* before.  (Overlapping, a rejection that read the row unverified does not take
\* back a verification, and photos sent while a rejection is on its way are left
\* out of the queue.)
ReviewsTakeEffect ==
  \A p \in Providers \ crossed :
    /\ providers[p].verified = granted[p]
    /\ p \in unseen => p \in Queue \/ providers[p].kyc_status = "verified"

=============================================================================
