----------------------------- MODULE WalletButton ------------------------------
(***************************************************************************)
(* The wallet of the browser, shared by every page: the connection of the  *)
(* extension, and the address that Phantom's deeplink left in localStorage *)
(* (components/WalletButton, the storage of solana/usePhantomDeeplink.ts). *)
(* How the deeplink comes to its address is PhantomConnect's subject.      *)
(***************************************************************************)
EXTENDS Consent

VARIABLE browser        \* [hasExtension, extension, stored, changes]

WalletInit ==
    \E extension \in BOOLEAN :
        browser = [hasExtension |-> extension, extension |-> None, stored |-> None,
                   changes |-> 0]

Change(b) ==
    /\ browser.changes < Scenes[scene].changes
    /\ browser' = [b EXCEPT !.changes = @ + 1]

Connect(w) ==
    /\ w \in scene /\ browser.hasExtension /\ browser.extension = None
    /\ Change([browser EXCEPT !.extension = w])

\* Also the first half of "Switch Wallet", which goes on to the list of wallets.
Disconnect ==
    /\ browser.extension # None
    /\ Change([browser EXCEPT !.extension = None])

\* What a mounted page has already taken from the storage, it keeps.
DeeplinkDisconnect ==
    /\ browser.extension = None /\ browser.stored # None
    /\ Change([browser EXCEPT !.stored = None])

DeeplinkApproved(w) ==
    /\ w \in scene /\ ~browser.hasExtension
    /\ Change([browser EXCEPT !.stored = w])
=============================================================================
