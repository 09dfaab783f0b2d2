------------------------------ MODULE MCDashboard ------------------------------
(* The components behind the dashboard: the inventory it edits, the accounts it  *)
(* guards, registration, the alert inbox, the finding detectors, the credential  *)
(* vault and the appliance that serves it. None of these models shares a variable *)
(* with another, and one run checks them all, each from its own initial states.  *)
EXTENDS Inventory, Accounts, Registration, AlertInbox, Findings, Vault, Appliance

VARIABLE part

MCLan == "h1"
MCOwn == "o1"

dashboardVars ==
    <<inventoryVars, accountVars, registrationVars, inboxVars, findingVars,
      vaultVars, applianceVars, part>>

DashboardInit ==
    /\ InventoryInit /\ AccountsInit /\ RegistrationInit /\ InboxInit /\ FindingsInit
    /\ VaultInit /\ ApplianceInit
    /\ part \in {"inventory", "accounts", "registration", "inbox", "findings",
                "vault", "appliance"}
    /\ part # "registration" => plan = FALSE
    /\ part # "findings" => public = {}
    /\ part # "vault" => passwords = {}
    /\ part # "appliance" => ~native /\ lan = MCLan /\ own = MCOwn

DashboardNext ==
    \/ /\ part = "inventory" /\ InventoryNext
       /\ UNCHANGED <<accountVars, registrationVars, inboxVars, findingVars,
                      vaultVars, applianceVars, part>>
    \/ /\ part = "accounts" /\ AccountsNext
       /\ UNCHANGED <<inventoryVars, registrationVars, inboxVars, findingVars,
                      vaultVars, applianceVars, part>>
    \/ /\ part = "registration" /\ RegistrationNext
       /\ UNCHANGED <<inventoryVars, accountVars, inboxVars, findingVars,
                      vaultVars, applianceVars, part>>
    \/ /\ part = "inbox" /\ InboxNext
       /\ UNCHANGED <<inventoryVars, accountVars, registrationVars, findingVars,
                      vaultVars, applianceVars, part>>
    \/ /\ part = "findings" /\ FindingsNext
       /\ UNCHANGED <<inventoryVars, accountVars, registrationVars, inboxVars,
                      vaultVars, applianceVars, part>>
    \/ /\ part = "vault" /\ VaultNext
       /\ UNCHANGED <<inventoryVars, accountVars, registrationVars, inboxVars,
                      findingVars, applianceVars, part>>
    \/ /\ part = "appliance" /\ ApplianceNext
       /\ UNCHANGED <<inventoryVars, accountVars, registrationVars, inboxVars,
                      findingVars, vaultVars, part>>

DashboardSpec == DashboardInit /\ [][DashboardNext]_dashboardVars

\* Types: the rows and settings of all seven components.
DashboardTypeOK ==
    /\ InventoryTypeOK /\ AccountsTypeOK /\ RegistrationTypeOK
    /\ InboxTypeOK /\ FindingsTypeOK
    /\ VaultTypeOK /\ ApplianceTypeOK

\* Two interfaces close enough to be welded: 1 may be the end of a link, 2
\* identifies itself as a smart switch over SSDP, and its host over mDNS.
MCMacs == {1, 2}
MCProto == 1 :> "none" @@ 2 :> "SSDP"
MCLinked == {1}
MCResponders == {2}
MCBanner == 1 :> "none" @@ 2 :> "Docker Host"

MCSeverityOf == "a1" :> "high" @@ "a2" :> "low" @@ "a3" :> "high"
MCTypeOf == "a1" :> "new_device" @@ "a2" :> "new_device" @@ "a3" :> "offline"
MCDeviceOf == 1 :> "d" @@ 2 :> "e"
================================================================================
