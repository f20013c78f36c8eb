----------------------------- MODULE Signatures -----------------------------
(***************************************************************************)
(* Who may send a transaction, and when (framework/src/modules/keys and    *)
(* modules/sequence). An account begins with one key; a registration gives *)
(* it mandatory and optional keys and a number of signatures, once.        *)
(*                                                                         *)
(* A signature over the bytes of the transaction is the key that made it,  *)
(* Empty, or Bad when it verifies with no key.                             *)
(***************************************************************************)
EXTENDS Integers, Sequences, SequencesExt, FiniteSets

CONSTANTS
  Sender,           \* accounts
  Key,              \* public keys: numbers, in their order
  KeyOf,            \* account -> senderPublicKey
  MaxKeys,          \* MAX_KEYS_COUNT
  GenesisKeys,      \* account -> its keys in the genesis block
  MaxSent           \* bound on the transactions applied

ASSUME SignaturesAssumption ==
  /\ Key \subseteq Nat \ {0}
  /\ KeyOf \in [Sender -> Key]
  /\ GenesisKeys \in [Sender -> [n : Nat, mandatory : Seq(Key), optional : Seq(Key)]]
  /\ MaxKeys \in Nat /\ MaxSent \in Nat

VARIABLES
  keys,             \* account.keys: [n, mandatory, optional]
  nonce,            \* account.sequence.nonce
  sent              \* history: [by, nonce, kind, signers, required]

keysVars == <<keys, nonce, sent>>

NoKeys == [n |-> 0, mandatory |-> <<>>, optional |-> <<>>]
Sorted(ks) == \A i, j \in DOMAIN ks : i < j => ks[i] <= ks[j]

Empty == 0
Bad == -1

KeyLists == UNION {[1..n -> Key] : n \in 0..MaxKeys}

-----------------------------------------------------------------------------
\* Mutant: more mandatory keys than signatures.
ValidGroupFewer(group) ==
  /\ group.n >= 1
  /\ IsInjective(group.mandatory) /\ IsInjective(group.optional)
  /\ group.n <= Len(group.mandatory) + Len(group.optional)
  /\ Len(group.mandatory) + Len(group.optional) \in 1..MaxKeys
  /\ ToSet(group.mandatory) \cap ToSet(group.optional) = {}
  /\ Sorted(group.mandatory) /\ Sorted(group.optional)

\* RegisterAsset.validate and the minimum of the schema.
ValidGroup(group) ==
  /\ group.n >= 1
  /\ IsInjective(group.mandatory) /\ IsInjective(group.optional)
  /\ group.n <= Len(group.mandatory) + Len(group.optional)
  /\ Len(group.mandatory) + Len(group.optional) \in 1..MaxKeys
  /\ Len(group.mandatory) <= group.n
  /\ ToSet(group.mandatory) \cap ToSet(group.optional) = {}
  /\ Sorted(group.mandatory) /\ Sorted(group.optional)

\* KeysModule.afterGenesisBlockApply: a group or no keys at all, with no minimum
\* of signatures.
ValidGenesis(group) ==
  /\ IsInjective(group.mandatory) /\ IsInjective(group.optional)
  /\ Sorted(group.mandatory) /\ Sorted(group.optional)
  /\ ToSet(group.mandatory) \cap ToSet(group.optional) = {}
  /\ Len(group.mandatory) + Len(group.optional) <= MaxKeys
  /\ group.n \in Len(group.mandatory)..(Len(group.mandatory) + Len(group.optional))

\* Mutant: keys alone make a group.
HasKeys(group) == group.mandatory \o group.optional # <<>>

\* isMultisignatureAccount
IsMultisignature(group) ==
  group.mandatory \o group.optional # <<>> /\ group.n # 0

\* Mutant: empty signatures of mandatory keys are passed over.
SignedByEmptyToo(ks, signatures) ==
  \A i \in DOMAIN ks : signatures[i] \in {ks[i], Empty}

\* validateKeysSignatures: key by key, in order.
SignedBy(ks, signatures) == \A i \in DOMAIN ks : signatures[i] = ks[i]

NonEmpty(signatures) == {i \in DOMAIN signatures : signatures[i] # Empty}

\* verifyMultiSignatureTransaction
GroupSigned(group, signatures) ==
  LET m == Len(group.mandatory)
      total == m + Len(group.optional)
  IN  /\ Cardinality(NonEmpty(signatures)) = group.n
      /\ Len(signatures) = total
      /\ SignedBy(group.mandatory, signatures)
      /\ \A i \in m+1..total : signatures[i] \in {group.optional[i - m], Empty}

\* KeysModule.beforeTransactionApply of a transaction that registers no keys.
Authorized(a, signatures) ==
  IF IsMultisignature(keys[a]) THEN GroupSigned(keys[a], signatures)
  ELSE signatures = <<KeyOf[a]>>

-----------------------------------------------------------------------------
\* Mutant: a nonce may lie ahead.
NonceAhead(a, n) == n >= nonce[a]

\* SequenceModule: the nonce is not lower before the transaction and equal after.
NonceFits(a, n) == n >= nonce[a] /\ n = nonce[a]

Signers(signatures) == ToSet(signatures) \cap Key

Record(a, n, kind, signatures) ==
  Append(sent, [by |-> a, nonce |-> n, kind |-> kind, group |-> keys[a],
                signers |-> Signers(signatures)])

Send(a, n, signatures) ==
  /\ Len(sent) < MaxSent
  /\ NonceFits(a, n)
  /\ Authorized(a, signatures)
  /\ nonce' = [nonce EXCEPT ![a] = @ + 1]
  /\ sent' = Record(a, n, "send", signatures)
  /\ UNCHANGED keys

\* The only signatures a registration is accepted with.
AllSigned(a, group) == <<KeyOf[a]>> \o group.mandatory \o group.optional

\* Mutant: keys can be registered again.
RegisterAgain(a, n, group) ==
  /\ Len(sent) < MaxSent
  /\ NonceFits(a, n)
  /\ ValidGroup(group)
  /\ keys' = [keys EXCEPT ![a] = group]
  /\ nonce' = [nonce EXCEPT ![a] = @ + 1]
  /\ sent' = Record(a, n, "register", AllSigned(a, group))

\* The registration: everybody signs, the sender first. The keys an account has
\* already are not asked, so it is refused when there are any.
RegisterKeys(a, n, group) ==
  /\ Len(sent) < MaxSent
  /\ NonceFits(a, n)
  /\ ValidGroup(group)
  /\ keys[a].n = 0
  /\ keys' = [keys EXCEPT ![a] = group]
  /\ nonce' = [nonce EXCEPT ![a] = @ + 1]
  /\ sent' = Record(a, n, "register", AllSigned(a, group))

-----------------------------------------------------------------------------
Groups ==
  {g \in [n : 0..MaxKeys, mandatory : KeyLists, optional : KeyLists] : ValidGroup(g)}
Vectors == UNION {[1..n -> Key \cup {Empty, Bad}] : n \in 1..MaxKeys + 1}

KeysInit ==
  /\ keys = GenesisKeys
  /\ \A a \in Sender : ValidGenesis(keys[a])
  /\ nonce = [a \in Sender |-> 0]
  /\ sent = <<>>

KeysNext ==
  \E a \in Sender, n \in 0..MaxSent :
    \/ \E signatures \in Vectors : Send(a, n, signatures)
    \/ \E group \in Groups : RegisterKeys(a, n, group)

KeysSpec == KeysInit /\ [][KeysNext]_keysVars

-----------------------------------------------------------------------------
\* The transactions of an account are applied once each and without a gap.
NoReplay ==
  \A i \in DOMAIN sent :
    sent[i].nonce = Cardinality({j \in 1..i-1 : sent[j].by = sent[i].by})

\* Nothing is sent unsigned, nor from an account with a group unless all mandatory
\* keys and at least the required number of different keys have signed it.
QuorumSigned ==
  \A i \in DOMAIN sent :
    /\ sent[i].signers # {}
    /\ IsMultisignature(sent[i].group) /\ sent[i].kind = "send" =>
       /\ ToSet(sent[i].group.mandatory) \subseteq sent[i].signers
       /\ Cardinality(sent[i].signers \cap
            ToSet(sent[i].group.mandatory \o sent[i].group.optional)) >= sent[i].group.n

\* No account can be locked: whatever was registered or came with the genesis
\* block, there are signatures with which it can send.
CanSend == \A a \in Sender : \E signatures \in Vectors : Authorized(a, signatures)

\* The keys of a group are never replaced: who controls an account controls it for
\* good.
GroupKept == [][\A a \in Sender : IsMultisignature(keys[a]) => keys'[a] = keys[a]]_keysVars

\* Every transaction is sent once and by those who may, there is always a way to
\* send the next, and a group stays as it was registered.
SignaturesHold == [](NoReplay /\ QuorumSigned /\ CanSend) /\ GroupKept
=============================================================================
