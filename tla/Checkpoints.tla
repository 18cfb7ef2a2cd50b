----------------------------- MODULE Checkpoints -----------------------------
(***************************************************************************)
(* The checkpoint side of the vault-api process, composed with the         *)
(* evidence side it reads: checkpointHistory and checkpointOrder, the      *)
(* goroutines that serve the four checkpoint routes, and the signing       *)
(* service they call.                                                      *)
(*                                                                         *)
(* buildLatestCheckpoint takes mu three times (largest leaf, cache lookup, *)
(* publication) and calls the signing service between the second and the   *)
(* third with the lock released, so other builders, the committer and the  *)
(* service's own restarts all fit between its steps.                       *)
(***************************************************************************)
EXTENDS EvidenceLog

CONSTANTS Builders,   \* goroutines serving checkpoint requests
          Keys,       \* Ed25519 keys the signing service may be configured with
          NoKey,      \* no signer (or no verification key) is configured
          Dev,        \* the built-in placeholder signature and key reference
          VerifyKey   \* the key in CHECKPOINT_VERIFY_PUBLIC_KEY_B64, or NoKey

ASSUME KeyAssumption ==
  /\ NoKey \notin Keys /\ Dev \notin Keys /\ NoKey # Dev
  /\ VerifyKey \in Keys \cup {NoKey}

VARIABLES checkpointHistory,  \* tree size -> published checkpoint
          checkpointOrder,    \* tree sizes in order of first publication
          bpc,        \* where each builder's goroutine is
          bop,        \* the route it serves
          bsize,      \* its local treeSize
          bcp,        \* its local checkpoint
          breply      \* what it answered last, while it serves nothing else

memory == <<checkpointHistory, checkpointOrder>>
cpVars == <<checkpointHistory, checkpointOrder, bpc, bop, bsize, bcp, breply>>
vars == <<evVars, cpVars>>

\* The root hash is the same constant in every checkpoint and is left out.
Checkpoint == [size : Nat, sig : Keys \cup {Dev}, ref : Keys \cup {Dev}]

Placeholder(n) == [size |-> n, sig |-> Dev, ref |-> Dev]

\* A reply: HTTP status, verdict, tree sizes listed in order.  (A checkpoint in
\* it is the builder's own, or one of checkpointHistory, and is not kept.)
Replies == [code : {0, 200, 400, 403, 404, 503},
            verdict : {"none", "true", "false"}, sizes : Seq(Nat)]

Reply(code, verdict, sizes) == [code |-> code, verdict |-> verdict, sizes |-> sizes]

StatusOnly(code) == Reply(code, "none", <<>>)

HasCheckpointAccess(role) == role \in {"auditor", "ingester"}

\* maxLeaf + 1 over the records of storeMap, 0 when none has a leaf.
LatestSize ==
  LET leaves == {storeMap[id] : id \in {x \in Ids : Committed(x)}}
  IN  IF leaves = {} THEN 0 ELSE Max(leaves) + 1

\* verifyCheckpointResponse: the placeholder is base64 but not a signature.
Verified(cp) == IF VerifyKey # NoKey /\ cp.sig = VerifyKey THEN "true" ELSE "false"

VerifyStatus == IF VerifyKey = NoKey THEN 503 ELSE 200

CpInit ==
  /\ checkpointHistory = [n \in {} |-> Placeholder(0)]
  /\ checkpointOrder = <<>>
  /\ bpc = [b \in Builders |-> "idle"]
  /\ bop = [b \in Builders |-> "latest"]
  /\ bsize = [b \in Builders |-> 0]
  /\ bcp = [b \in Builders |-> Placeholder(0)]
  /\ breply = [b \in Builders |-> StatusOnly(0)]

\* The goroutine answers and is done; its local variables go with it.
Answer(b, reply) ==
  /\ bpc' = [bpc EXCEPT ![b] = "idle"]
  /\ bop' = [bop EXCEPT ![b] = "latest"]
  /\ bsize' = [bsize EXCEPT ![b] = 0]
  /\ bcp' = [bcp EXCEPT ![b] = Placeholder(0)]
  /\ breply' = [breply EXCEPT ![b] = reply]

\* Where a request goes once it has its checkpoint; the history route drops it.
AfterBuild(b, cp) ==
  /\ bpc' = [bpc EXCEPT ![b] = IF bop[b] = "history" THEN "list" ELSE "reply"]
  /\ bcp' = [bcp EXCEPT ![b] = IF bop[b] = "history" THEN Placeholder(0) ELSE cp]
-----------------------------------------------------------------------------
(* buildLatestCheckpoint *)

\* Access check and first critical section.  With no leaf the latest and
\* verify routes answer 404; the history route ignores the failed build.
BuildStart(b, op, role) ==
  /\ bpc[b] = "idle"
  /\ \/ /\ ~ HasCheckpointAccess(role)
        /\ Answer(b, StatusOnly(403))
     \/ /\ HasCheckpointAccess(role) /\ LatestSize = 0 /\ op # "history"
        /\ Answer(b, StatusOnly(404))
     \/ /\ HasCheckpointAccess(role) /\ (LatestSize # 0 \/ op = "history")
        /\ bop' = [bop EXCEPT ![b] = op]
        /\ bsize' = [bsize EXCEPT ![b] = LatestSize]
        /\ bpc' = [bpc EXCEPT ![b] = IF LatestSize = 0 THEN "list" ELSE "lookup"]
        /\ breply' = [breply EXCEPT ![b] = StatusOnly(0)]
        /\ UNCHANGED bcp
  /\ UNCHANGED memory

\* Mutant: a placeholder that was published is signed again.
BuildLookup_RetriesPlaceholder(b) ==
  /\ bpc[b] = "lookup"
  /\ \/ /\ bsize[b] \in DOMAIN checkpointHistory
        /\ checkpointHistory[bsize[b]].sig # Dev
        /\ AfterBuild(b, checkpointHistory[bsize[b]])
     \/ /\ bsize[b] \in DOMAIN checkpointHistory => checkpointHistory[bsize[b]].sig = Dev
        /\ bpc' = [bpc EXCEPT ![b] = "sign"]
        /\ UNCHANGED bcp
  /\ UNCHANGED <<memory, bop, bsize, breply>>

\* Second critical section: a checkpoint published for that size is used as it
\* is, a placeholder included.
BuildLookup(b) ==
  /\ bpc[b] = "lookup"
  /\ \/ /\ bsize[b] \in DOMAIN checkpointHistory
        /\ AfterBuild(b, checkpointHistory[bsize[b]])
     \/ /\ bsize[b] \notin DOMAIN checkpointHistory
        /\ bpc' = [bpc EXCEPT ![b] = "sign"]
        /\ UNCHANGED bcp
  /\ UNCHANGED <<memory, bop, bsize, breply>>

\* What "signature" and "key_ref" can come to be when the service signs with k:
\* its own, or the default that stays where its reply has none.
Offered(k) == {Dev} \cup ({k} \cap Keys)

\* Mutant: a call that fails is tried again, without limit.
BuildSign_Retries(b) ==
  /\ bpc[b] = "sign"
  /\ \/ /\ \E k \in Keys : bcp' = [bcp EXCEPT ![b] = [size |-> bsize[b], sig |-> k, ref |-> k]]
        /\ bpc' = [bpc EXCEPT ![b] = "publish"]
     \/ bpc' = [bpc EXCEPT ![b] = "lookup"] /\ UNCHANGED bcp
  /\ UNCHANGED <<memory, bop, bsize, breply>>

\* Mutant: the signature is asked for a size computed anew.
BuildSign_FreshSize(b) ==
  /\ bpc[b] = "sign"
  /\ bcp' = [bcp EXCEPT ![b] = [size |-> LatestSize, sig |-> Dev, ref |-> Dev]]
  /\ bpc' = [bpc EXCEPT ![b] = "publish"]
  /\ UNCHANGED <<memory, bop, bsize, breply>>

\* Mutant: whatever the service answers is taken for a signature.
BuildSign_NoStatusCheck(b) ==
  /\ bpc[b] = "sign"
  /\ \E k \in Keys \cup {NoKey} :
       bcp' = [bcp EXCEPT ![b] = [size |-> bsize[b], sig |-> k, ref |-> k]]
  /\ bpc' = [bpc EXCEPT ![b] = "publish"]
  /\ UNCHANGED <<memory, bop, bsize, breply>>

\* The POST to CHECKPOINT_SIGNING_URL, no lock held.  The service signs with
\* whatever signer it was last started with, if any.  The two fields of its
\* reply are taken over one by one, each only if it is there and not empty; no
\* URL, an error, a timeout or a bad reply leave the placeholder in both.
BuildSign(b) ==
  /\ bpc[b] = "sign"
  /\ \E svcKey \in Keys \cup {NoKey} : \E s, k \in Offered(svcKey) :
       bcp' = [bcp EXCEPT ![b] = [size |-> bsize[b], sig |-> s, ref |-> k]]
  /\ bpc' = [bpc EXCEPT ![b] = "publish"]
  /\ UNCHANGED <<memory, bop, bsize, breply>>

\* Mutants: every publication is listed again; only the latest is kept.
BuildPublish_ListAgain(b) ==
  /\ bpc[b] = "publish"
  /\ checkpointOrder' = Append(checkpointOrder, bsize[b])
  /\ checkpointHistory' = [n \in DOMAIN checkpointHistory \cup {bsize[b]} |->
                             IF n = bsize[b] THEN bcp[b] ELSE checkpointHistory[n]]
  /\ AfterBuild(b, bcp[b])
  /\ UNCHANGED <<bop, bsize, breply>>

BuildPublish_OnlyLatest(b) ==
  /\ bpc[b] = "publish"
  /\ checkpointOrder' = <<bsize[b]>>
  /\ checkpointHistory' = [n \in {bsize[b]} |-> bcp[b]]
  /\ AfterBuild(b, bcp[b])
  /\ UNCHANGED <<bop, bsize, breply>>

\* Third critical section: list the size if it is new, store the checkpoint
\* whether or not another builder stored one meanwhile.
BuildPublish(b) ==
  /\ bpc[b] = "publish"
  /\ checkpointOrder' = IF bsize[b] \in DOMAIN checkpointHistory
                          THEN checkpointOrder
                          ELSE Append(checkpointOrder, bsize[b])
  /\ checkpointHistory' = [n \in DOMAIN checkpointHistory \cup {bsize[b]} |->
                             IF n = bsize[b] THEN bcp[b] ELSE checkpointHistory[n]]
  /\ AfterBuild(b, bcp[b])
  /\ UNCHANGED <<bop, bsize, breply>>
-----------------------------------------------------------------------------
(* The rest of the four handlers *)

\* GetCheckpointsLatest encodes its own checkpoint.
LatestReply(b) ==
  /\ bpc[b] = "reply" /\ bop[b] = "latest"
  /\ Answer(b, Reply(200, "none", <<>>))
  /\ UNCHANGED memory

\* verifyCheckpointResponse on a copy of a checkpoint; no lock is held.
Verdict(cp) == Reply(VerifyStatus, Verified(cp), <<>>)

\* VerifyLatestCheckpoint verifies its own checkpoint.
VerifyReply(b) ==
  /\ bpc[b] = "reply" /\ bop[b] = "verify"
  /\ Answer(b, Verdict(bcp[b]))
  /\ UNCHANGED memory

\* GetCheckpointsHistory lists checkpointOrder backwards under mu.
HistoryReply(b) ==
  /\ bpc[b] = "list"
  /\ Answer(b, Reply(200, "none", Reverse(checkpointOrder)))
  /\ UNCHANGED memory

\* VerifyCheckpointByTreeSize: n = 0 stands for a size that does not parse as
\* a positive number.  The checkpoint is copied under mu and verified after.
VerifyBySize(b, n, role) ==
  /\ bpc[b] = "idle"
  /\ \/ ~ HasCheckpointAccess(role) /\ Answer(b, StatusOnly(403))
     \/ HasCheckpointAccess(role) /\ n = 0 /\ Answer(b, StatusOnly(400))
     \/ /\ HasCheckpointAccess(role) /\ n # 0 /\ n \notin DOMAIN checkpointHistory
        /\ Answer(b, StatusOnly(404))
     \/ /\ HasCheckpointAccess(role) /\ n # 0 /\ n \in DOMAIN checkpointHistory
        /\ Answer(b, Verdict(checkpointHistory[n]))
  /\ UNCHANGED memory
-----------------------------------------------------------------------------
Ops == {"latest", "history", "verify"}

\* What a builder that has begun to serve a request does next.
Build(b) ==
  \/ BuildLookup(b)
  \/ BuildSign(b)
  \/ BuildPublish(b)
  \/ LatestReply(b)
  \/ VerifyReply(b)
  \/ HistoryReply(b)

CpNext ==
  \/ \E b \in Builders :
       \/ \E op \in Ops, role \in Roles : BuildStart(b, op, role)
       \/ \E n \in 0..(next + 1), role \in Roles : VerifyBySize(b, n, role)
       \/ Build(b)

\* The whole process: the two sides interleave and share storeMap.
Init == EvInit /\ CpInit

Next ==
  \/ EvNext /\ UNCHANGED cpVars
  \/ CpNext /\ UNCHANGED evVars

Spec == Init /\ [][Next]_vars

\* The same with only the evidence steps that change what builders read.
EvWrites ==
  \/ \E c \in Clients : IngestReply(c) \/ \E id \in Ids : IngestRecord(c, id)
  \/ Committer

CpStep ==
  \/ EvWrites /\ UNCHANGED cpVars
  \/ CpNext /\ UNCHANGED evVars

CpSpec == Init /\ [][CpStep]_vars

\* A handler that was entered returns: it waits for nothing but mu, which is
\* always released, and the signing call, which times out after 3 seconds.
\* Clients, the committer and checkpoint-svc owe nothing.
CpFairSpec == CpSpec /\ \A b \in Builders : WF_vars(Build(b) /\ UNCHANGED evVars)
-----------------------------------------------------------------------------
(* Properties *)

\* Every variable of the checkpoint side holds what the code puts there.
CpTypeOK ==
  /\ DOMAIN checkpointHistory \subseteq Nat
  /\ \A n \in DOMAIN checkpointHistory : checkpointHistory[n] \in Checkpoint
  /\ checkpointOrder \in Seq(Nat)
  /\ bpc \in [Builders -> {"idle", "lookup", "sign", "publish", "reply", "list"}]
  /\ bop \in [Builders -> Ops]
  /\ bsize \in [Builders -> Nat]
  /\ bcp \in [Builders -> Checkpoint]
  /\ breply \in [Builders -> Replies]

\* checkpointOrder lists the sizes of checkpointHistory, each once, however
\* builders of one size overlap: the listing neither repeats nor misses one.
OrderMatchesHistory ==
  /\ \A n \in DOMAIN checkpointHistory :
       \E i \in DOMAIN checkpointOrder : checkpointOrder[i] = n
  /\ \A i \in DOMAIN checkpointOrder : checkpointOrder[i] \in DOMAIN checkpointHistory
  /\ \A i, j \in DOMAIN checkpointOrder :
       checkpointOrder[i] = checkpointOrder[j] => i = j

\* No checkpoint, published or being built, covers a leaf that is not
\* committed, and the one filed under a size is a checkpoint of that size,
\* although the size is read one lock earlier than it is published.
CheckpointsCovered ==
  /\ \A n \in DOMAIN checkpointHistory :
       0 < n /\ n <= next /\ checkpointHistory[n].size = n
  /\ \A b \in Builders :
       /\ bpc[b] \in {"lookup", "sign", "publish", "reply"} => 0 < bsize[b]
       /\ bpc[b] \in {"lookup", "sign", "publish", "reply", "list"} => bsize[b] <= next
       /\ bpc[b] \in {"publish", "reply"} => bcp[b].size = bsize[b]

\* A history request that built a checkpoint lists it, and any listing names
\* published sizes only.
HistoryIncludesBuilt ==
  \A b \in Builders :
    /\ bpc[b] = "list" /\ bsize[b] # 0 => bsize[b] \in DOMAIN checkpointHistory
    /\ \A i \in DOMAIN breply[b].sizes : breply[b].sizes[i] \in DOMAIN checkpointHistory

\* Published sizes stay published and keep their place in the listing.
HistoryGrows ==
  [][/\ DOMAIN checkpointHistory \subseteq DOMAIN checkpointHistory'
     /\ IsPrefix(checkpointOrder, checkpointOrder')]_vars

\* Nobody is about to publish for this size, which is published.
Settled(n) ==
  /\ n \in DOMAIN checkpointHistory
  /\ \A b \in Builders : bpc[b] \in {"sign", "publish"} => bsize[b] # n

\* How far the overwriting of ingest.go:242 goes: only builders that looked up
\* a size before it was published replace its checkpoint.  Once the last of
\* them is done the checkpoint is final, a placeholder or half a reply of the
\* signing service included: nothing asks for that signature again.
SettledFinal ==
  [][\A n \in DOMAIN checkpointHistory :
       Settled(n) => Settled(n)' /\ checkpointHistory'[n] = checkpointHistory[n]]_vars

\* Every checkpoint request is answered, the signing service up or down.
RequestsAnswered == \A b \in Builders : (bpc[b] # "idle") ~> (bpc[b] = "idle")

\* security/policies/append-only-policy.md: no Signed Tree Head is modified
\* after creation, i.e. what is filed under a tree size stays.
TreeHeadsImmutable ==
  [][\A n \in DOMAIN checkpointHistory :
       n \in DOMAIN checkpointHistory' /\ checkpointHistory'[n] = checkpointHistory[n]]_vars
=============================================================================
