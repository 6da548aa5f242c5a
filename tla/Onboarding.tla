----------------------------- MODULE Onboarding -----------------------------
(***************************************************************************)
(* The way into the web app: the gate of apps/web/src/App.tsx, which sends *)
(* a page to /splash, /onboarding or /unlock and back, and the wizard of   *)
(* components/OnboardingWizard.tsx, which makes or imports an identity,    *)
(* links a wallet to it and saves both in the account.                     *)
(*                                                                         *)
(* An effect runs after every render; each of its navigations is a step.   *)
(* Generating a key, the wallet and saving take any time; parsing a pasted *)
(* secret does not leave the microtask queue, so it is part of Next.       *)
(***************************************************************************)
EXTENDS Naturals

CONSTANTS
    Ids,   \* identities, by their peer id
    NoId

VARIABLES
    path,      \* "link" (the page that was opened), "chats", "splash", "onboarding", "unlock"
    returnTo,  \* location.state.returnTo, as sanitizeReturnToPath reads it
    inject,    \* base injection: "due", "timer", "done", or "none" for a /u/ link
    loaded,    \* isLoaded
    account,   \* account: its identity, the peer id its wallet signed, biometricUnlockEnabled
    unlocked,  \* biometricSessionUnlocked
    wizard,    \* the state of OnboardingWizard
    linking,   \* handleLinkWallet: the peer id the wallet is asked to sign
    finish,    \* onComplete: "none", "saving" or "linking", and where it navigates to then
    crossed,   \* the identity changed while the wallet was asked
    gated      \* what stood in the way: the wizard, the lock

gate == <<path, returnTo, inject, loaded, unlocked, gated>>
vars == <<path, returnTo, inject, loaded, account, unlocked, wizard, linking, finish, crossed, gated>>

NotFinishing == [at |-> "none"]

Pages == {"link", "chats", "splash", "onboarding", "unlock"}
Gates == {"splash", "onboarding", "unlock"}

\* A wizard that was just opened.  wallet is the peer id of the proof in linkedWallet.
Fresh == [step |-> 0, made |-> NoId, making |-> FALSE, saved |-> FALSE, import |-> FALSE,
          resolved |-> NoId, wallet |-> NoId]

Init ==
    /\ path = "link" /\ returnTo = "chats"
    /\ inject \in {"due", "none"}
    /\ loaded = FALSE /\ unlocked = FALSE /\ gated = {}
    /\ account \in [id : {NoId}, wallet : {NoId}, lock : {FALSE}]
                   \cup [id : Ids, wallet : {NoId}, lock : BOOLEAN]
    /\ wizard = Fresh /\ linking = NoId /\ finish = NotFinishing
    /\ crossed = FALSE

-----------------------------------------------------------------------------
\* The gate.

\* What the gate asks for: the splash until the account is loaded, then the
\* wizard, then the lock.
Wanted ==
    CASE ~loaded -> "splash"
      [] loaded /\ account.id = NoId -> "onboarding"
      [] loaded /\ account.id # NoId /\ account.lock /\ ~unlocked -> "unlock"
      [] OTHER -> "open"

\* sanitizeReturnToPath
Sanitized(page) == IF page \in Gates THEN "chats" ELSE page

Go(page, state) ==
    /\ path' = page
    /\ returnTo' = state
    /\ gated' = gated \cup ({page} \cap {"onboarding", "unlock"})

\* A wizard that was left has forgotten its state and hears of no wallet.
Reopened ==
    IF path # "onboarding" /\ path' = "onboarding"
    THEN wizard' = Fresh /\ linking' = NoId
    ELSE UNCHANGED <<wizard, linking>>

\* The deep link of a fresh tab: /chats is put under it, and a timer reopens it.
\* The injection navigates after the gate and wins.
Injects == inject = "due" /\ path = "link"

InjectBase ==
    /\ Injects
    /\ inject' = "timer"
    /\ Go("chats", "chats")
    /\ UNCHANGED <<loaded, account, unlocked, wizard, linking, finish, crossed>>

Reopen ==
    /\ inject = "timer"
    /\ inject' = "done"
    /\ Go("link", "chats")
    /\ UNCHANGED <<loaded, account, unlocked, wizard, linking, finish, crossed>>

Gate ==
    /\ ~Injects
    /\ IF Wanted # "open"
       THEN path # Wanted /\ Go(Wanted, Sanitized(path))
       ELSE path \in Gates /\ Go(returnTo, "chats")
    /\ Reopened
    /\ UNCHANGED <<inject, loaded, account, unlocked, finish, crossed>>

Load ==
    /\ ~loaded
    /\ loaded' = TRUE
    /\ UNCHANGED <<path, returnTo, inject, account, unlocked, wizard, linking, finish, crossed, gated>>

\* The lock is opened, or its drawer is closed, which opens it too.
Unlock(cancelled) ==
    /\ path = "unlock"
    /\ unlocked' = TRUE
    /\ Go(IF cancelled THEN "chats" ELSE returnTo, "chats")
    /\ UNCHANGED <<inject, loaded, account, wizard, linking, finish, crossed>>

\* Settings: turning the lock off also locks the session again, for the next time.
ToggleLock ==
    /\ path \notin Gates /\ Wanted = "open"
    /\ account' = [account EXCEPT !.lock = ~@]
    /\ unlocked' = (unlocked /\ account'.lock)
    /\ gated' = gated \cup {"unlock"}
    /\ UNCHANGED <<path, returnTo, inject, loaded, wizard, linking, finish, crossed>>

-----------------------------------------------------------------------------
\* The wizard.

\* The wizard is there until the gate sees an account with an identity, which is
\* before the next click.
Open == path = "onboarding" /\ Wanted = "onboarding"
At(step) == Open /\ wizard.step = step
Set(fields) == wizard' = [f \in DOMAIN wizard |-> IF f \in DOMAIN fields THEN fields[f] ELSE wizard[f]]
Stay == UNCHANGED <<gate, account, finish>>

\* Next on the name, on the wallet.
Next1 == At(0) /\ Set([step |-> 1]) /\ UNCHANGED <<linking, crossed>> /\ Stay
Next3 == At(2) /\ wizard.resolved # NoId /\ Set([step |-> 3]) /\ UNCHANGED <<linking, crossed>> /\ Stay

Back ==
    /\ Open /\ wizard.step > 0
    /\ Set([step |-> wizard.step - 1])
    /\ UNCHANGED <<linking, crossed>> /\ Stay

Generate ==
    /\ At(1) /\ ~wizard.import /\ wizard.made = NoId /\ ~wizard.making
    /\ Set([making |-> TRUE])
    /\ UNCHANGED <<linking, crossed>> /\ Stay

\* The key is there, wherever the user went meanwhile ...
Generated(id) ==
    /\ Open /\ wizard.making
    /\ Set([making |-> FALSE, made |-> id, saved |-> FALSE])
    /\ UNCHANGED <<linking, crossed>> /\ Stay

\* ... or could not be made.
GenerateFails ==
    /\ Open /\ wizard.making
    /\ Set([making |-> FALSE])
    /\ UNCHANGED <<linking, crossed>> /\ Stay

\* The box "I have saved my recovery key".
Acknowledge ==
    /\ At(1) /\ ~wizard.import /\ wizard.made # NoId
    /\ Set([saved |-> ~wizard.saved])
    /\ UNCHANGED <<linking, crossed>> /\ Stay

ToggleImport == At(1) /\ Set([import |-> ~wizard.import]) /\ UNCHANGED <<linking, crossed>> /\ Stay

\* Mutant of ApplyResolved: a proof made for another identity is kept.
ApplyResolvedKeeps(id) ==
    /\ Set([step |-> 2, resolved |-> id])
    /\ crossed' = (crossed \/ linking \notin {NoId, id})

\* applyResolvedIdentity: another identity takes the linked wallet with it.
ApplyResolved(id) ==
    /\ Set([step |-> 2, resolved |-> id,
            wallet |-> IF wizard.resolved \in {NoId, id} THEN wizard.wallet ELSE NoId])
    /\ crossed' = (crossed \/ linking \notin {NoId, id})

\* Next on the identity: in import mode the pasted one and never the generated
\* one, otherwise the one whose key the user has saved.
Next2(id) ==
    /\ At(1)
    /\ ~wizard.import => id = wizard.made /\ wizard.saved
    /\ ApplyResolved(id)
    /\ UNCHANGED linking /\ Stay

\* The wallet signs the peer id of the moment it is asked.
LinkWallet ==
    /\ At(2) /\ linking = NoId
    /\ linking' = wizard.resolved
    /\ UNCHANGED <<wizard, crossed>> /\ Stay

Linked ==
    /\ Open /\ linking # NoId
    /\ Set([wallet |-> linking])
    /\ linking' = NoId
    /\ UNCHANGED crossed /\ Stay

LinkFails ==
    /\ linking # NoId
    /\ linking' = NoId
    /\ UNCHANGED <<wizard, crossed>> /\ Stay

ClearLink ==
    /\ At(2) /\ linking = NoId /\ wizard.wallet # NoId
    /\ Set([wallet |-> NoId])
    /\ UNCHANGED <<linking, crossed>> /\ Stay

\* Finish: the account takes the identity at once, which opens the gate, and is
\* saved in the background; the wallet follows when that is done.
Finish ==
    /\ At(3) /\ wizard.resolved # NoId
    /\ account' = [account EXCEPT !.id = wizard.resolved]
    /\ finish' = [at |-> "saving", back |-> returnTo]
    /\ UNCHANGED <<gate, wizard, linking, crossed>>

Saved ==
    /\ finish.at = "saving"
    /\ IF wizard.wallet = NoId
       THEN finish' = NotFinishing /\ Go(finish.back, "chats") /\ UNCHANGED account
       ELSE /\ finish' = [finish EXCEPT !.at = "linking"]
            /\ account' = [account EXCEPT !.wallet = wizard.wallet]
            /\ UNCHANGED <<path, returnTo, gated>>
    /\ UNCHANGED <<inject, loaded, unlocked, wizard, linking, crossed>>

WalletSaved ==
    /\ finish.at = "linking"
    /\ finish' = NotFinishing
    /\ Go(finish.back, "chats")
    /\ UNCHANGED <<inject, loaded, account, unlocked, wizard, linking, crossed>>

SaveFails ==
    /\ finish # NotFinishing
    /\ finish' = NotFinishing
    /\ UNCHANGED <<gate, account, wizard, linking, crossed>>

Next ==
    \/ InjectBase \/ Reopen \/ Gate \/ Load \/ ToggleLock
    \/ \E cancelled \in BOOLEAN : Unlock(cancelled)
    \/ Next1 \/ Next3 \/ Back \/ Generate \/ GenerateFails \/ Acknowledge
    \/ ToggleImport
    \/ \E id \in Ids : Generated(id) \/ Next2(id)
    \/ LinkWallet \/ Linked \/ LinkFails \/ ClearLink
    \/ Finish \/ Saved \/ WalletSaved \/ SaveFails

Spec == Init /\ [][Next]_vars

-----------------------------------------------------------------------------

Wizards ==
    [step : 0..3, made : Ids \cup {NoId}, making : BOOLEAN, saved : BOOLEAN, import : BOOLEAN,
     resolved : Ids \cup {NoId}, wallet : Ids \cup {NoId}]

\* An account that is being saved has its identity.
TypeOK ==
    /\ path \in Pages /\ returnTo \in {"link", "chats"}
    /\ inject \in {"due", "timer", "done", "none"}
    /\ account \in [id : Ids \cup {NoId}, wallet : Ids \cup {NoId}, lock : BOOLEAN]
    /\ wizard \in Wizards /\ linking \in Ids \cup {NoId}
    /\ finish \in {NotFinishing} \cup [at : {"saving", "linking"}, back : {"link", "chats"}]
    /\ finish # NotFinishing => account.id # NoId
    /\ {loaded, unlocked, crossed} \subseteq BOOLEAN

\* The wallet in the account signed for the identity in the account, whatever
\* the user went back to and changed in the wizard, unless the identity was
\* changed while the wallet was still being asked.
ProofIsForIdentity == account.wallet \in {NoId, account.id} \/ crossed

\* The gate has settled and the page is in the app.
Settled == loaded /\ Wanted = "open" /\ path \notin Gates /\ inject \in {"done", "none"} /\ finish = NotFinishing

\* docs/ens-handles.md: "a cold load on /u/vitalik.eth survives onboarding and
\* resolves afterwards".
LinkSurvivesOnboarding == Settled /\ inject = "none" /\ "unlock" \notin gated => path = "link"

\* The wallet that is linked, or asked to sign, is asked for the identity the
\* wizard has; that is the one the account takes, and no wallet is in the account
\* before it.
WalletFollowsIdentity ==
    /\ crossed \/ {wizard.wallet, linking} \subseteq {NoId, wizard.resolved}
    /\ account.id = NoId => account.wallet = NoId
    /\ finish # NotFinishing => wizard.resolved = account.id

IInv == TypeOK /\ WalletFollowsIdentity /\ ProofIsForIdentity
=============================================================================
