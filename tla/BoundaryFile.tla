---------------------------- MODULE BoundaryFile ----------------------------
(***************************************************************************)
(* The boundary file: the accounts, their sites and the IndexNow targets   *)
(* that every server reads once at startup.  Guided setup, the IndexNow    *)
(* initialisation and the last stage of an onboarding each read the whole  *)
(* document, change their copy and replace the file with it; the replace   *)
(* is atomic, the read and the replace together are not.                   *)
(***************************************************************************)
EXTENDS Naturals, FiniteSets, TLC

CONSTANTS
    Callers,        \* processes and requests that run the operations
    Sites,          \* site roots; their hosts are the IndexNow hosts too
    Providers,      \* providers an account can belong to
    AccountIds,     \* account ids
    ProviderOf,     \* the provider an account id is used for
    TargetIds       \* ids asked of the IndexNow initialisation

ASSUME ProviderOfIsAFunction == ProviderOf \in [AccountIds -> Providers]

VARIABLES
    document,       \* the content of the file
    replacements,   \* how often the file was replaced (history)
    policy          \* ids of the accounts a server loaded at startup

fileVars == <<document, replacements, policy>>

NoKey == 0

\* An account with the resources that onboarding records in it.  "sites" are
\* search_console_sites of a Google account and bing_sites of a Bing account.
Account == [sites : SUBSET Sites, properties : SUBSET Nat,
            keyed : BOOLEAN, pages : SUBSET Sites]

NewAccount == [sites |-> {}, properties |-> {}, keyed |-> FALSE, pages |-> {}]

IndexNowTarget == [id : TargetIds, host : Sites, key : Nat]

AreAccounts(accounts) ==
    /\ accounts = [a \in DOMAIN accounts |-> accounts[a]]
    /\ DOMAIN accounts \subseteq AccountIds
    /\ \A a \in DOMAIN accounts : accounts[a] \in Account

IsDocument(d) ==
    /\ d = [accounts |-> d.accounts, targets |-> d.targets]
    /\ AreAccounts(d.accounts)
    /\ d.targets \subseteq IndexNowTarget

AccountsOf(d, provider) == {a \in DOMAIN d.accounts : ProviderOf[a] = provider}

\* No resource is configured for two accounts of one provider.
ResourcesUnshared(accounts) ==
    \A a, b \in DOMAIN accounts :
        a # b /\ ProviderOf[a] = ProviderOf[b] =>
            /\ accounts[a].sites \cap accounts[b].sites = {}
            /\ accounts[a].properties \cap accounts[b].properties = {}
            /\ accounts[a].pages \cap accounts[b].pages = {}

\* What the model of the document validates, here and in every reader.
ValidDocument(d) ==
    /\ ResourcesUnshared(d.accounts)
    /\ \A s, t \in d.targets : s # t => s.id # t.id /\ s.host # t.host
    /\ \A t \in d.targets : t.id \notin DOMAIN d.accounts

\* Everything the file said before is still said: no account, no site or
\* property of an account, and no target is gone.
Keeps(new, old) ==
    /\ DOMAIN old.accounts \subseteq DOMAIN new.accounts
    /\ \A a \in DOMAIN old.accounts :
          /\ old.accounts[a].sites \subseteq new.accounts[a].sites
          /\ old.accounts[a].properties \subseteq new.accounts[a].properties
          /\ old.accounts[a].pages \subseteq new.accounts[a].pages
    /\ old.targets \subseteq new.targets

\* os.replace of a temporary file that holds the whole new document.
ReplaceFile(d) ==
    /\ document' = d
    /\ replacements' = replacements + 1

\* A server or a command starts: it validates the file and keeps its accounts
\* until it exits (their resources restrict nothing).  A document that does
\* not validate stops the start.
LoadPolicy ==
    /\ ValidDocument(document)
    /\ policy' = DOMAIN document.accounts
    /\ UNCHANGED <<document, replacements>>

\* select_account: an explicit account of the provider, or the only one.
Selectable(provider, asked) ==
    LET candidates == {a \in policy : ProviderOf[a] = provider}
    IN  IF asked # "automatic" THEN {asked} \cap candidates
        ELSE IF Cardinality(candidates) = 1 THEN candidates ELSE {}

=============================================================================
