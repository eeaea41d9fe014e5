----------------------------- MODULE LocalSetup -----------------------------
(***************************************************************************)
(* The two commands that edit the boundary file on the owner's machine:    *)
(* guided setup, which stores credentials while it asks for them and       *)
(* replaces the document at the end, and the IndexNow initialisation,      *)
(* which loads or creates the key file and adds one target.                *)
(***************************************************************************)
EXTENDS BoundaryFile, Sequences

CONSTANTS
    ProviderOrder,  \* the order guided setup asks for the providers in
    DefaultId       \* the id guided setup gives a provider's first account

ASSUME DefaultIdNamesItsProvider ==
    /\ DefaultId \in [Providers -> AccountIds]
    /\ \A p \in Providers : ProviderOf[DefaultId[p]] = p
ASSUME OrderNamesProviders == \A i \in DOMAIN ProviderOrder : ProviderOrder[i] \in Providers

VARIABLES
    edit,           \* per caller: the command it runs
    secrets,        \* providers whose credential file is stored
    pagespeedKey,   \* the optional PageSpeed key file is stored
    keyFile,        \* content of the IndexNow key file, NoKey when absent
    keysMade,       \* keys generated so far (each is fresh)
    keysRaced       \* two initialisations overlapped before a key existed

setupVars == <<edit, secrets, pagespeedKey, keyFile, keysMade, keysRaced>>

AskedProviders == {ProviderOrder[i] : i \in DOMAIN ProviderOrder}

NoEdit == [stage |-> "idle"]

Editing(c) == edit[c].stage # "idle"

Stop(c) == edit' = [edit EXCEPT ![c] = NoEdit]

----------------------------------------------------------------------------
(* Guided setup *)

\* The document is read before the first prompt; a selected provider with
\* several accounts stops the setup before any secret is asked for.
GuidedRead(c, selected) ==
    /\ ~Editing(c)
    /\ selected # {}
    /\ ValidDocument(document)
    /\ \A p \in selected : Cardinality(AccountsOf(document, p)) <= 1
    /\ edit' = [edit EXCEPT ![c] =
                  [stage |-> "prompts", copy |-> document, seen |-> replacements,
                   todo |-> SelectSeq(ProviderOrder, LAMBDA p : p \in selected),
                   configured |-> selected, keyed |-> FALSE]]
    /\ UNCHANGED <<secrets, pagespeedKey, keyFile, keysMade, keysRaced>>

\* One prompt: a pasted credential is stored at once, a blank one needs the
\* file of an earlier setup and ends the setup when there is none.
StoreCredential(c) ==
    /\ edit[c].stage = "prompts"
    /\ edit[c].todo # <<>>
    /\ LET p == Head(edit[c].todo)
       IN  \/ /\ secrets' = secrets \cup {p}
              /\ pagespeedKey' \in IF p = "google" THEN {pagespeedKey, TRUE} ELSE {pagespeedKey}
              /\ edit' = [edit EXCEPT ![c].todo = Tail(@),
                                      ![c].keyed = @ \/ (p = "google" /\ pagespeedKey')]
           \/ /\ p \notin secrets
              /\ Stop(c)
              /\ UNCHANGED <<secrets, pagespeedKey>>
    /\ UNCHANGED <<keyFile, keysMade, keysRaced>>

\* The account a selected provider has in the copy, or the id of a new one.
ConfiguredId(d, p) ==
    IF AccountsOf(d, p) = {} THEN DefaultId[p] ELSE CHOOSE a \in AccountsOf(d, p) : TRUE

\* A configured account keeps its resources; a PageSpeed key file in place
\* when Google was asked for is recorded.
ConfigureAccount(d, p, keyed) ==
    LET id == ConfiguredId(d, p)
        current == IF id \in DOMAIN d.accounts THEN d.accounts[id] ELSE NewAccount
    IN  [current EXCEPT !.keyed = @ \/ (p = "google" /\ keyed)]

\* mutant: only the providers of this setup reach the new document
OnlyConfigured(d, configured, keyed) ==
    [a \in {ConfiguredId(d, p) : p \in configured} |->
        ConfigureAccount(d, ProviderOf[a], keyed)]

\* Accounts of providers that were not selected stay as the copy has them.
MergeAccounts(d, configured, keyed) ==
    LET ids == {ConfiguredId(d, p) : p \in configured}
    IN  [a \in DOMAIN d.accounts \cup ids |->
            IF a \in ids THEN ConfigureAccount(d, ProviderOf[a], keyed) ELSE d.accounts[a]]

\* The merged copy replaces the file whatever the file has become meanwhile.
GuidedWrite(c) ==
    /\ edit[c].stage = "prompts"
    /\ edit[c].todo = <<>>
    /\ LET new == [accounts |-> MergeAccounts(edit[c].copy, edit[c].configured,
                                            edit[c].keyed),
                   targets |-> edit[c].copy.targets]
       IN  IF ValidDocument(new) THEN ReplaceFile(new) ELSE UNCHANGED <<document, replacements>>
    /\ Stop(c)
    /\ UNCHANGED <<policy, secrets, pagespeedKey, keyFile, keysMade, keysRaced>>

----------------------------------------------------------------------------
(* IndexNow initialisation *)

\* The raw JSON is read: its shape is checked, its accounts are not.
InitializeIndexNow(c, id, host) ==
    /\ ~Editing(c)
    /\ edit' = [edit EXCEPT ![c] =
                  [stage |-> "look", copy |-> document, seen |-> replacements,
                   id |-> id, host |-> host, key |-> NoKey]]
    /\ keysRaced' = (keysRaced \/ (/\ keyFile = NoKey
                                   /\ \E o \in Callers : edit[o].stage \in {"look", "create"}))
    /\ UNCHANGED <<secrets, pagespeedKey, keyFile, keysMade>>

\* mutant: each initialisation generates its key
NeverLoad(c) ==
    /\ edit[c].stage = "look"
    /\ edit' = [edit EXCEPT ![c].stage = "create"]
    /\ UNCHANGED <<secrets, pagespeedKey, keyFile, keysMade, keysRaced>>

\* An existing key file is loaded; a missing one is noticed here and written
\* in the next step.
LookForKey(c) ==
    /\ edit[c].stage = "look"
    /\ edit' = [edit EXCEPT ![c].stage = IF keyFile = NoKey THEN "create" ELSE "configure",
                            ![c].key = keyFile]
    /\ UNCHANGED <<secrets, pagespeedKey, keyFile, keysMade, keysRaced>>

\* The key is generated and the file replaced, even if another initialisation
\* has written one since the look.
CreateKey(c) ==
    /\ edit[c].stage = "create"
    /\ keysMade' = keysMade + 1
    /\ keyFile' = keysMade'
    /\ edit' = [edit EXCEPT ![c].stage = "configure", ![c].key = keysMade']
    /\ UNCHANGED <<secrets, pagespeedKey, keysRaced>>

\* The target that must be in the document after the initialisation.
ExactTarget(c) == [id |-> edit[c].id, host |-> edit[c].host, key |-> edit[c].key]

\* mutant: only a target with the same id is a conflict
SameId(c) == {t \in edit[c].copy.targets : t.id = edit[c].id}

Conflicting(c) ==
    {t \in edit[c].copy.targets : t.id = edit[c].id \/ t.host = edit[c].host}

\* Another target with the id or the host ends the initialisation; the same
\* target is left as it is and the unchanged copy is still written back.
ConfigureTarget(c) ==
    /\ edit[c].stage = "configure"
    /\ IF Conflicting(c) \subseteq {ExactTarget(c)}
         THEN ReplaceFile([edit[c].copy EXCEPT !.targets = @ \cup {ExactTarget(c)}])
         ELSE UNCHANGED <<document, replacements>>
    /\ Stop(c)
    /\ UNCHANGED <<policy, secrets, pagespeedKey, keyFile, keysMade, keysRaced>>

----------------------------------------------------------------------------

SetupInit ==
    /\ edit = [c \in Callers |-> NoEdit]
    /\ secrets = {}
    /\ pagespeedKey = FALSE
    /\ keyFile = NoKey
    /\ keysMade = 0
    /\ keysRaced = FALSE

=============================================================================
