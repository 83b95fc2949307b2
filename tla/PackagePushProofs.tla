-------------------------- MODULE PackagePushProofs --------------------------
(***************************************************************************)
(* Theorems about PackagePush, for any number of pushers, packages, sites  *)
(* and signers: the types; that no tag ever names what is not there; that  *)
(* a tag moves only to what its push has signed; that pruning keeps the    *)
(* newest reports; and, of a pusher that pushes alone, that documents are  *)
(* carried once and no report leaves its signatures behind.                *)
(***************************************************************************)
EXTENDS PackagePush, FiniteSetTheorems, TLAPS

-----------------------------------------------------------------------------
(* Types.                                                                  *)

RegistryOK ==
    /\ blobs \subseteq Blob
    /\ manifests \subseteq Component
    /\ sboms \subseteq Package
    /\ indexes \subseteq Package
    /\ referrers \subseteq ReferrerType
    /\ signatures \subseteq [of : NodeType, signer : Signer]
    /\ tags \in [Tag -> Package \cup {None}]
    /\ siteBlobs \in [Site -> SUBSET Blob]
    /\ siteManifests \in [Site -> SUBSET Component]
    /\ siteIndexes \in [Site -> SUBSET SUBSET Component]
    /\ siteTags \in [Site -> SUBSET Component]

PushersOK ==
    /\ pc \in [Pusher -> Labels]
    /\ job \in [Pusher -> Jobs \cup {NoJob}]
    /\ DOMAIN todo = Pusher
    /\ DOMAIN node = Pusher
    /\ unsigned \in [Pusher -> SUBSET Signer]
    /\ pushes \in [Pusher -> 0..MaxPushes]
    /\ \A p \in Pusher :
        /\ pc[p] # "ready" => job[p] \in Jobs
        /\ Fits(pc[p], todo[p], node[p])

\* The types of what the registry holds, and of where the pushers are.
LEMMA TypeParts == TypeOK <=> RegistryOK /\ PushersOK
BY DEF TypeOK, RegistryOK, PushersOK

\* A pusher that moves on to what fits the step it moves to keeps the types.
LEMMA MoveFits ==
    ASSUME PushersOK, NEW p \in Pusher, pc[p] # "ready",
           NEW label \in Labels, NEW left, NEW n,
           At(p, label, left, n), Fits(label, left, n)
    PROVE  PushersOK'
<1> USE ConstantsAssumption
<1>1. job[p] \in Jobs /\ job[p].signers \subseteq Signer
  BY DEF PushersOK, JobType
<1>2. /\ pc' \in [Pusher -> Labels]
      /\ job' \in [Pusher -> Jobs \cup {NoJob}]
      /\ DOMAIN todo' = Pusher
      /\ DOMAIN node' = Pusher
      /\ pushes' \in [Pusher -> 0..MaxPushes]
  BY DEF PushersOK, At
<1>3. unsigned' \in [Pusher -> SUBSET Signer]
  BY <1>1 DEF PushersOK, At
<1>4. ASSUME NEW q \in Pusher
      PROVE  /\ pc'[q] # "ready" => job'[q] \in Jobs
             /\ Fits(pc'[q], todo'[q], node'[q])
  <2>1. CASE q = p
    <3>1. pc'[q] = label /\ todo'[q] = left /\ node'[q] = n /\ job'[q] = job[p]
      BY <2>1 DEF PushersOK, At
    <3> QED
      BY <3>1, <1>1
  <2>2. CASE q # p
    <3>1. pc'[q] = pc[q] /\ todo'[q] = todo[q] /\ node'[q] = node[q] /\ job'[q] = job[q]
      BY <2>2 DEF PushersOK, At
    <3> QED
      BY <3>1 DEF PushersOK
  <2> QED
    BY <2>1, <2>2
<1> QED
  BY <1>2, <1>3, <1>4 DEF PushersOK

\* Every step keeps the registry and the pushers within their types.
THEOREM TypeCorrect == Spec => []TypeOK
<1> USE ConstantsAssumption
<1>1. Init => TypeOK
  <2> SUFFICES ASSUME Init
               PROVE  RegistryOK /\ PushersOK
    BY TypeParts
  <2>1. RegistryOK
    BY DEF Init, RegistryOK
  <2>2. /\ pc \in [Pusher -> Labels]
        /\ job \in [Pusher -> Jobs \cup {NoJob}]
        /\ unsigned \in [Pusher -> SUBSET Signer]
        /\ pushes \in [Pusher -> 0..MaxPushes]
    BY DEF Init, Labels, Ended
  <2>3. ASSUME NEW p \in Pusher
        PROVE  pc[p] = "ready" /\ Fits(pc[p], todo[p], node[p])
    BY <2>3 DEF Init, Fits
  <2> QED
    BY <2>1, <2>2, <2>3 DEF PushersOK, Init
<1>2. TypeOK /\ [Next]_vars => TypeOK'
  <2> SUFFICES ASSUME RegistryOK, PushersOK, [Next]_vars
               PROVE  RegistryOK' /\ PushersOK'
    BY DEF TypeOK, RegistryOK, PushersOK
  <2>1. CASE UNCHANGED vars
    BY <2>1 DEF RegistryOK, PushersOK, vars, registry, repository, sites
  <2>2. ASSUME NEW p \in Pusher, Push(p)
        PROVE  RegistryOK' /\ PushersOK'
    <3> DEFINE s == job[p].package
    <3>1. ASSUME pc[p] # "ready"
          PROVE  /\ job[p] \in Jobs
                 /\ s \in Package
                 /\ job[p].tag \in Tag
                 /\ job[p].signers \subseteq Signer
                 /\ job[p].documents \subseteq Document
                 /\ job[p].scan \in Nat
                 /\ Fits(pc[p], todo[p], node[p])
      BY <3>1 DEF PushersOK, JobType
    <3>2. CASE Start(p)
      <4>1. RegistryOK'
        BY <3>2 DEF Start, RegistryOK, registry, repository, sites
      <4>2. PICK j \in Jobs :
              /\ job' = [job EXCEPT ![p] = j]
              /\ todo' = [todo EXCEPT ![p] = UNION {Layers[c] : c \in Holds[j.package]}]
        BY <3>2 DEF Start
      <4>3. UNION {Layers[c] : c \in Holds[j.package]} \subseteq Blob
        BY DEF JobType
      <4>4. /\ pc' \in [Pusher -> Labels]
            /\ job' \in [Pusher -> Jobs \cup {NoJob}]
            /\ DOMAIN todo' = Pusher
            /\ DOMAIN node' = Pusher
            /\ unsigned' \in [Pusher -> SUBSET Signer]
            /\ pushes' \in [Pusher -> 0..MaxPushes]
        BY <3>2, <4>2 DEF Start, PushersOK, Labels
      <4>5. ASSUME NEW q \in Pusher
            PROVE  (pc'[q] # "ready" => job'[q] \in Jobs) /\ Fits(pc'[q], todo'[q], node'[q])
        <5>1. CASE q = p
          BY <3>2, <4>2, <4>3, <5>1 DEF Start, PushersOK, Fits
        <5>2. CASE q # p
          <6>1. pc'[q] = pc[q] /\ todo'[q] = todo[q] /\ node'[q] = node[q] /\ job'[q] = job[q]
            BY <3>2, <4>2, <5>2 DEF Start, PushersOK
          <6> QED
            BY <6>1 DEF PushersOK
        <5> QED
          BY <5>1, <5>2
      <4> QED
        BY <4>1, <4>4, <4>5 DEF PushersOK
    <3>3. CASE Stops(p)
      <4>1. pc[p] # "ready" /\ At(p, "failed", {}, None)
        BY <3>3 DEF Stops, Goto, Strike, Ended
      <4>2. Fits("failed", {}, None) /\ "failed" \in Labels
        BY <3>3, <3>1, <4>1 DEF Stops, Fits, Labels, Ended
      <4>3. PushersOK'
        BY <4>1, <4>2, MoveFits
      <4>4. RegistryOK'
        BY <3>3, <3>1, <4>1 DEF Stops, RegistryOK, registry, repository, sites
      <4> QED
        BY <4>3, <4>4
    <3>4. CASE PushLayer(p)
      <4>1. PICK b \in todo[p] : blobs' = blobs \cup {b} /\ Strike(p, b)
        BY <3>4 DEF PushLayer
      <4>2. pc[p] # "ready" /\ At(p, pc[p], todo[p] \ {b}, None)
        BY <3>4, <4>1 DEF PushLayer, Goto, Strike
      <4>3. Fits(pc[p], todo[p] \ {b}, None) /\ pc[p] \in Labels
        BY <3>4, <3>1, <4>2 DEF PushLayer, Fits, Labels
      <4>4. PushersOK'
        BY <4>2, <4>3, MoveFits
      <4>5. RegistryOK'
        BY <3>4, <3>1, <4>1, <4>2 DEF PushLayer, RegistryOK, registry, repository, sites, Fits
      <4> QED
        BY <4>4, <4>5
    <3>5. CASE LayersPushed(p)
      <4>1. pc[p] # "ready" /\ At(p, "manifests", Holds[s], None)
        BY <3>5 DEF LayersPushed, Goto, Strike, Ended
      <4>2. Fits("manifests", Holds[s], None) /\ "manifests" \in Labels
        BY <3>5, <3>1, <4>1 DEF LayersPushed, Fits, Labels, Ended
      <4>3. PushersOK'
        BY <4>1, <4>2, MoveFits
      <4>4. RegistryOK'
        BY <3>5, <3>1, <4>1 DEF LayersPushed, RegistryOK, registry, repository, sites
      <4> QED
        BY <4>3, <4>4
    <3>6. CASE PushManifest(p)
      <4>1. PICK c \in todo[p] : manifests' = manifests \cup {c} /\ Strike(p, c)
        BY <3>6 DEF PushManifest
      <4>2. pc[p] # "ready" /\ At(p, pc[p], todo[p] \ {c}, None)
        BY <3>6, <4>1 DEF PushManifest, Goto, Strike
      <4>3. Fits(pc[p], todo[p] \ {c}, None) /\ pc[p] \in Labels
        BY <3>6, <3>1, <4>2 DEF PushManifest, Fits, Labels
      <4>4. PushersOK'
        BY <4>2, <4>3, MoveFits
      <4>5. RegistryOK'
        BY <3>6, <3>1, <4>1, <4>2 DEF PushManifest, RegistryOK, registry, repository, sites, Fits
      <4> QED
        BY <4>4, <4>5
    <3>7. CASE PushSBOM(p)
      <4>1. PICK label \in {"failed", "index"} : At(p, label, {}, None)
        BY <3>7 DEF PushSBOM, Goto
      <4>2. Fits(label, {}, None) /\ label \in Labels /\ pc[p] # "ready"
        BY <3>7 DEF PushSBOM, Fits, Labels, Ended
      <4>3. PushersOK'
        BY <4>1, <4>2, MoveFits
      <4>4. RegistryOK'
        BY <3>7, <3>1 DEF PushSBOM, RegistryOK, sites
      <4> QED
        BY <4>3, <4>4
    <3>8. CASE PushIndex(p)
      <4>1. pc[p] # "ready" /\ At(p, "sign", {}, Index(s))
        BY <3>8 DEF PushIndex, Goto, Strike, Ended
      <4>2. Fits("sign", {}, Index(s)) /\ "sign" \in Labels
        BY <3>8, <3>1, <4>1 DEF PushIndex, Fits, Labels, Ended, Index, NodeType
      <4>3. PushersOK'
        BY <4>1, <4>2, MoveFits
      <4>4. RegistryOK'
        BY <3>8, <3>1, <4>1 DEF PushIndex, RegistryOK, registry, repository, sites
      <4> QED
        BY <4>3, <4>4
    <3>9. CASE Sign(p)
      <4>1. PICK g \in unsigned[p] :
              /\ signatures' = signatures \cup {[of |-> node[p], signer |-> g]}
              /\ unsigned' = [unsigned EXCEPT ![p] = @ \ {g}]
        BY <3>9 DEF Sign
      <4>2. node[p] \in NodeType /\ g \in Signer
        BY <3>9, <3>1 DEF Sign, Fits, PushersOK
      <4>3. RegistryOK'
        BY <3>9, <4>1, <4>2 DEF Sign, RegistryOK, repository, sites
      <4>4. unsigned' \in [Pusher -> SUBSET Signer]
        BY <4>1 DEF PushersOK
      <4>5. PushersOK'
        BY <3>9, <4>4 DEF Sign, PushersOK
      <4> QED
        BY <4>3, <4>5
    <3>10. CASE SignedAll(p)
      <4>1. pc[p] = "sign" /\ Fits("sign", todo[p], node[p])
        BY <3>10, <3>1 DEF SignedAll
      <4>2. node[p].kind \in {"index", "reports", "vex", "component"}
        BY <4>1 DEF Fits, NodeType, Index, ReferrerType, PlacedType
      <4>3. node[p].kind = "component" => node[p] \in PlacedType
        BY <4>1 DEF Fits, NodeType, Index, ReferrerType
      <4>4. PICK label, left, n :
              /\ label \in {"reports", "documents", "site_tag"}
              /\ At(p, label, left, n)
              /\ label = "documents" => left \subseteq Document
              /\ label = "site_tag" => left \subseteq Site /\ n \in PlacedType
        <5>1. CASE node[p].kind = "index"
          BY <3>10, <5>1 DEF SignedAll, Goto
        <5>2. CASE node[p].kind = "reports"
          BY <3>10, <3>1, <4>1, <5>2 DEF SignedAll, Goto
        <5>3. CASE node[p].kind = "vex"
          BY <3>10, <4>1, <5>3 DEF SignedAll, Goto, Fits
        <5>4. CASE node[p].kind = "component"
          BY <3>10, <4>1, <4>3, <5>4 DEF SignedAll, Fits
        <5> QED
          BY <4>2, <5>1, <5>2, <5>3, <5>4
      <4>5. Fits(label, left, n) /\ label \in Labels
        BY <4>4 DEF Fits, Labels
      <4>6. PushersOK'
        BY <4>1, <4>4, <4>5, MoveFits
      <4>7. RegistryOK'
        BY <3>10 DEF SignedAll, RegistryOK, registry, repository, sites
      <4> QED
        BY <4>6, <4>7
    <3>11. CASE AttachReports(p)
      <4> DEFINE r == Reports(s, job[p].scan)
      <4>1. pc[p] = "reports" /\ r \in ReferrerType
        BY <3>11, <3>1 DEF AttachReports, Reports, ReferrerType
      <4>2. r.kind = "reports"
        BY DEF Reports
      <4>3. CASE job[p].scan = 0
        <5>1. At(p, "documents", job[p].documents, None) /\ UNCHANGED referrers
          BY <3>11, <4>3 DEF AttachReports, Goto
        <5>2. Fits("documents", job[p].documents, None) /\ "documents" \in Labels
          BY <3>1, <4>1 DEF Fits, Labels
        <5>3. PushersOK'
          BY <4>1, <5>1, <5>2, MoveFits
        <5> QED
          BY <3>11, <5>1, <5>3 DEF AttachReports, RegistryOK, registry, repository, sites
      <4>4. CASE job[p].scan # 0
        <5>1. At(p, "sign", {}, r) /\ referrers' = referrers \cup {r}
          BY <3>11, <4>4 DEF AttachReports
        <5>2. Fits("sign", {}, r) /\ "sign" \in Labels
          BY <4>1, <4>2 DEF Fits, Labels, NodeType
        <5>3. PushersOK'
          BY <4>1, <5>1, <5>2, MoveFits
        <5> QED
          BY <3>11, <4>1, <5>1, <5>3 DEF AttachReports, RegistryOK, registry, repository, sites
      <4> QED
        BY <4>3, <4>4
    <3>12. CASE ListDocuments(p)
      <4>1. pc[p] = "documents" /\ todo[p] \subseteq Document
        BY <3>12, <3>1 DEF ListDocuments, Fits
      <4>2. PICK d \in todo[p] :
              \/ At(p, "documents", todo[p] \ {d}, None)
              \/ At(p, "attach", todo[p] \ {d}, Vex(s, d, p))
        BY <3>12, <4>1 DEF ListDocuments, Strike
      <4>3. Vex(s, d, p) \in ReferrerType
        BY <3>1, <4>1 DEF Vex, ReferrerType, PushersOK
      <4>4. /\ Fits("documents", todo[p] \ {d}, None)
            /\ Fits("attach", todo[p] \ {d}, Vex(s, d, p))
            /\ {"documents", "attach"} \subseteq Labels
        BY <4>1, <4>3 DEF Fits, Labels, Vex
      <4>5. PushersOK'
        BY <4>1, <4>2, <4>4, MoveFits
      <4>6. RegistryOK'
        BY <3>12 DEF ListDocuments, RegistryOK, registry, repository, sites
      <4> QED
        BY <4>5, <4>6
    <3>13. CASE AttachDocument(p)
      <4>1. pc[p] = "attach" /\ node[p] \in ReferrerType /\ node[p].kind = "vex"
            /\ todo[p] \subseteq Document /\ At(p, "sign", todo[p], node[p])
        BY <3>13, <3>1 DEF AttachDocument, Goto, Strike, Fits
      <4>2. Fits("sign", todo[p], node[p]) /\ "sign" \in Labels
        BY <4>1, <3>1 DEF Fits, Labels, Ended, NodeType
      <4>3. PushersOK'
        BY <4>1, <4>2, MoveFits
      <4>4. RegistryOK'
        BY <3>13, <3>1, <4>1 DEF AttachDocument, RegistryOK, registry, repository, sites
      <4> QED
        BY <4>3, <4>4
    <3>14. CASE DocumentsAttached(p)
      <4>1. pc[p] = "documents" /\ At(p, "provenance", {}, None)
        BY <3>14, <3>1 DEF DocumentsAttached, Goto, Strike, Fits
      <4>2. Fits("provenance", {}, None) /\ "provenance" \in Labels
        BY <4>1, <3>1 DEF Fits, Labels, Ended
      <4>3. PushersOK'
        BY <4>1, <4>2, MoveFits
      <4>4. RegistryOK'
        BY <3>14, <3>1, <4>1 DEF DocumentsAttached, RegistryOK, registry, repository, sites
      <4> QED
        BY <4>3, <4>4
    <3>15. CASE ListProvenance(p)
      <4>1. PICK left \in SUBSET (Signer \cup {None}) : At(p, "attest", left, None)
        BY <3>15, <3>1 DEF ListProvenance, Goto
      <4>2. pc[p] # "ready" /\ Fits("attest", left, None) /\ "attest" \in Labels
        BY <3>15 DEF ListProvenance, Fits, Labels
      <4>3. PushersOK'
        BY <4>1, <4>2, MoveFits
      <4>4. RegistryOK'
        BY <3>15 DEF ListProvenance, RegistryOK, registry, repository, sites
      <4> QED
        BY <4>3, <4>4
    <3>16. CASE Attest(p)
      <4>1. pc[p] = "attest" /\ todo[p] \subseteq Signer \cup {None}
        BY <3>16, <3>1 DEF Attest, Fits
      <4>2. PICK g \in todo[p] :
              /\ referrers' = referrers \cup {Attestation(s, g, p)}
              /\ At(p, "attest", todo[p] \ {g}, None)
        BY <3>16, <4>1 DEF Attest, Strike
      <4>3. Attestation(s, g, p) \in ReferrerType
        BY <3>1, <4>1 DEF Attestation, ReferrerType, PushersOK
      <4>4. Fits("attest", todo[p] \ {g}, None) /\ "attest" \in Labels
        BY <4>1 DEF Fits, Labels
      <4>5. PushersOK'
        BY <4>1, <4>2, <4>4, MoveFits
      <4>6. RegistryOK'
        BY <3>16, <4>2, <4>3 DEF Attest, RegistryOK, repository, sites
      <4> QED
        BY <4>5, <4>6
    <3>17. CASE Attested(p)
      <4>1. PICK label \in {"sites", "tag"}, left \in SUBSET Site : At(p, label, left, None)
        BY <3>17 DEF Attested, Goto, SitesOf
      <4>2. pc[p] # "ready" /\ Fits(label, left, None) /\ label \in Labels
        BY <3>17 DEF Attested, Fits, Labels
      <4>3. PushersOK'
        BY <4>1, <4>2, MoveFits
      <4>4. RegistryOK'
        BY <3>17 DEF Attested, RegistryOK, registry, repository, sites
      <4> QED
        BY <4>3, <4>4
    <3>18. CASE EnterSite(p)
      <4>1. pc[p] = "sites" /\ todo[p] \subseteq Site
        BY <3>18, <3>1 DEF EnterSite, Fits
      <4>2. PICK x \in todo[p] : At(p, "copy", todo[p] \ {x}, Placed(x, Members[s][x]))
        BY <3>18 DEF EnterSite
      <4>3. Placed(x, Members[s][x]) \in PlacedType
        BY <3>1, <4>1 DEF Placed, PlacedType
      <4>4. Fits("copy", todo[p] \ {x}, Placed(x, Members[s][x])) /\ "copy" \in Labels
        BY <4>1, <4>3 DEF Fits, Labels
      <4>5. PushersOK'
        BY <4>1, <4>2, <4>4, MoveFits
      <4>6. RegistryOK'
        BY <3>18 DEF EnterSite, RegistryOK, registry, repository, sites
      <4> QED
        BY <4>5, <4>6
    <3>19. CASE CopyBlob(p)
      <4>1. node[p] \in PlacedType
        BY <3>19, <3>1 DEF CopyBlob, Fits
      <4>2. node[p].of \in Site /\ Missing(node[p].of, node[p].members) \subseteq Component
        BY <4>1 DEF PlacedType, Missing
      <4>3. siteBlobs' \in [Site -> SUBSET Blob]
        BY <3>19, <4>2 DEF CopyBlob, RegistryOK
      <4> QED
        BY <3>19, <4>3 DEF CopyBlob, RegistryOK, PushersOK, repository
    <3>20. CASE CopyManifest(p)
      <4>1. node[p] \in PlacedType
        BY <3>20, <3>1 DEF CopyManifest, Fits
      <4>2. node[p].of \in Site /\ Missing(node[p].of, node[p].members) \subseteq Component
        BY <4>1 DEF PlacedType, Missing
      <4>3. siteManifests' \in [Site -> SUBSET Component]
        BY <3>20, <4>2 DEF CopyManifest, RegistryOK
      <4> QED
        BY <3>20, <4>3 DEF CopyManifest, RegistryOK, PushersOK, repository
    <3>21. CASE Copied(p)
      <4>1. pc[p] = "copy" /\ node[p] \in PlacedType /\ todo[p] \subseteq Site
            /\ At(p, "sign", todo[p], node[p])
        BY <3>21, <3>1 DEF Copied, Goto, Strike, Fits
      <4>2. Fits("sign", todo[p], node[p]) /\ "sign" \in Labels
        BY <4>1, <3>1 DEF Fits, Labels, Ended, NodeType, PlacedType
      <4>3. PushersOK'
        BY <4>1, <4>2, MoveFits
      <4>4. RegistryOK'
        <5>1. node[p].of \in Site /\ node[p].members \subseteq Component
          BY <4>1 DEF PlacedType
        <5>2. siteIndexes' \in [Site -> SUBSET SUBSET Component]
          BY <3>21, <5>1 DEF Copied, RegistryOK
        <5> QED
          BY <3>21, <5>2 DEF Copied, RegistryOK, repository
      <4> QED
        BY <4>3, <4>4
    <3>22. CASE TagSite(p)
      <4>1. pc[p] = "site_tag" /\ node[p] \in PlacedType /\ todo[p] \subseteq Site
        BY <3>22, <3>1 DEF TagSite, Fits
      <4>2. node[p].members \subseteq Component
        BY <4>1 DEF PlacedType
      <4>3. At(p, "sites", todo[p], None)
        BY <3>22 DEF TagSite, Goto
      <4>4. Fits("sites", todo[p], None) /\ "sites" \in Labels
        BY <4>1 DEF Fits, Labels
      <4>5. PushersOK'
        BY <4>1, <4>3, <4>4, MoveFits
      <4>6. siteTags' \in [Site -> SUBSET Component]
        BY <3>22, <4>2 DEF TagSite, RegistryOK
      <4>7. RegistryOK'
        BY <3>22, <4>6 DEF TagSite, RegistryOK, repository
      <4> QED
        BY <4>5, <4>7
    <3>23. CASE SitesTagged(p)
      <4>1. pc[p] = "sites" /\ At(p, "tag", {}, None)
        BY <3>23, <3>1 DEF SitesTagged, Goto, Strike, Fits
      <4>2. Fits("tag", {}, None) /\ "tag" \in Labels
        BY <4>1, <3>1 DEF Fits, Labels, Ended
      <4>3. PushersOK'
        BY <4>1, <4>2, MoveFits
      <4>4. RegistryOK'
        BY <3>23, <3>1, <4>1 DEF SitesTagged, RegistryOK, registry, repository, sites
      <4> QED
        BY <4>3, <4>4
    <3>24. CASE TagPackage(p)
      <4>1. pc[p] = "tag" /\ At(p, "prune", {}, None)
        BY <3>24, <3>1 DEF TagPackage, Goto, Strike, Fits
      <4>2. Fits("prune", {}, None) /\ "prune" \in Labels
        BY <4>1, <3>1 DEF Fits, Labels, Ended
      <4>3. PushersOK'
        BY <4>1, <4>2, MoveFits
      <4>4. RegistryOK'
        BY <3>24, <3>1, <4>1 DEF TagPackage, RegistryOK, registry, repository, sites
      <4> QED
        BY <4>3, <4>4
    <3>25. CASE PruneList(p)
      <4>1. At(p, "stale", Stale(s, job[p].keep), None)
        BY <3>25 DEF PruneList, Goto
      <4>2. Stale(s, job[p].keep) \subseteq ReferrerType
        BY DEF Stale, Carried, RegistryOK
      <4>3. pc[p] # "ready" /\ Fits("stale", Stale(s, job[p].keep), None) /\ "stale" \in Labels
        BY <3>25, <4>2 DEF PruneList, Fits, Labels
      <4>4. PushersOK'
        BY <4>1, <4>3, MoveFits
      <4>5. RegistryOK'
        BY <3>25 DEF PruneList, RegistryOK, registry, repository, sites
      <4> QED
        BY <4>4, <4>5
    <3>26. CASE PruneSignatures(p)
      <4>1. pc[p] = "stale" /\ todo[p] \subseteq ReferrerType
        BY <3>26, <3>1 DEF PruneSignatures, Fits
      <4>2. PICK r \in todo[p] :
              /\ signatures' = signatures \ SignaturesOf(r)
              /\ At(p, "delete", todo[p] \ {r}, r)
        BY <3>26 DEF PruneSignatures
      <4>3. Fits("delete", todo[p] \ {r}, r) /\ "delete" \in Labels
        BY <4>1 DEF Fits, Labels
      <4>4. PushersOK'
        BY <4>1, <4>2, <4>3, MoveFits
      <4>5. RegistryOK'
        BY <3>26, <4>2 DEF PruneSignatures, RegistryOK, repository, sites
      <4> QED
        BY <4>4, <4>5
    <3>27. CASE PruneReport(p)
      <4>1. pc[p] = "delete" /\ todo[p] \subseteq ReferrerType /\ At(p, "stale", todo[p], None)
        BY <3>27, <3>1 DEF PruneReport, Goto, Strike, Fits
      <4>2. Fits("stale", todo[p], None) /\ "stale" \in Labels
        BY <4>1, <3>1 DEF Fits, Labels, Ended
      <4>3. PushersOK'
        BY <4>1, <4>2, MoveFits
      <4>4. RegistryOK'
        BY <3>27, <3>1, <4>1 DEF PruneReport, RegistryOK, registry, repository, sites
      <4> QED
        BY <4>3, <4>4
    <3>28. CASE PruneRefused(p)
      <4>1. /\ pc[p] \in {"prune", "stale", "delete"}
            /\ pc[p] # "prune" => todo[p] \subseteq ReferrerType
        BY <3>28, <3>1 DEF PruneRefused, Fits
      <4>2. PICK label, left :
              /\ label \in {"done", "stale"}
              /\ At(p, label, left, None)
              /\ label = "stale" => left \subseteq ReferrerType
        <5>1. CASE pc[p] = "prune"
          BY <3>28, <5>1 DEF PruneRefused, Goto
        <5>2. CASE pc[p] = "stale"
          <6>1. PICK r \in todo[p] : Strike(p, r)
            BY <3>28, <5>2 DEF PruneRefused
          <6> QED
            BY <4>1, <5>2, <6>1 DEF Strike
        <5>3. CASE pc[p] = "delete"
          BY <3>28, <4>1, <5>3 DEF PruneRefused, Goto
        <5> QED
          BY <4>1, <5>1, <5>2, <5>3
      <4>3. Fits(label, left, None) /\ label \in Labels
        BY <4>2 DEF Fits, Labels, Ended
      <4>4. PushersOK'
        BY <4>1, <4>2, <4>3, MoveFits
      <4>5. signatures' \subseteq signatures
        BY <3>28 DEF PruneRefused
      <4>6. RegistryOK'
        BY <3>28, <4>5 DEF PruneRefused, RegistryOK, repository, sites
      <4> QED
        BY <4>4, <4>6
    <3>29. CASE Pruned(p)
      <4>1. pc[p] = "stale" /\ At(p, "done", {}, None)
        BY <3>29, <3>1 DEF Pruned, Goto, Strike, Fits
      <4>2. Fits("done", {}, None) /\ "done" \in Labels
        BY <4>1, <3>1 DEF Fits, Labels, Ended
      <4>3. PushersOK'
        BY <4>1, <4>2, MoveFits
      <4>4. RegistryOK'
        BY <3>29, <3>1, <4>1 DEF Pruned, RegistryOK, registry, repository, sites
      <4> QED
        BY <4>3, <4>4
    <3> QED
      BY <2>2, <3>2, <3>3, <3>4, <3>5, <3>6, <3>7, <3>8, <3>9, <3>10, <3>11,
         <3>12, <3>13, <3>14, <3>15, <3>16, <3>17, <3>18, <3>19, <3>20, <3>21,
         <3>22, <3>23, <3>24, <3>25, <3>26, <3>27, <3>28, <3>29
         DEF Push
  <2> QED
    BY <2>1, <2>2 DEF Next
<1> QED
  BY <1>1, <1>2, PTL DEF Spec

-----------------------------------------------------------------------------
(* What a tag names is there in full.                                      *)

\* The blobs of a package's components.
Wanted(s) == UNION {Layers[c] : c \in Holds[s]}

\* The steps a push takes once the index is there, up to its tag.
Indexed == {"sign", "reports", "documents", "attach", "provenance", "attest",
            "sites", "copy", "site_tag", "tag"}

\* What a site holds before a tag may name these members.
Ready(x, members) ==
    /\ members \subseteq siteManifests[x]
    /\ Several(members) => members \in siteIndexes[x]

\* What is there, or left to push, when a push of package s is at a step.
Backed(s, label, left, n) ==
    /\ label = "layers" => Wanted(s) \subseteq blobs \cup left
    /\ label \in {"manifests", "index"} => Wanted(s) \subseteq blobs
    /\ label = "manifests" => Holds[s] \subseteq manifests \cup left
    /\ label = "index" => Holds[s] \subseteq manifests /\ s \in sboms
    /\ label \in Indexed => Present(s)
    /\ label = "site_tag" => Ready(n.of, n.members)
    /\ label = "sign" /\ n.kind = "component" => Ready(n.of, n.members)

PushesBacked == \A p \in Pusher : Backed(job[p].package, pc[p], todo[p], node[p])

TagsPresent == \A t \in Tag : tags[t] # None => Present(tags[t])

\* A site holds what its tag names, and what every manifest there names.
SitesClosed ==
    \A x \in Site :
        /\ Ready(x, siteTags[x])
        /\ \A c \in siteManifests[x] : Layers[c] \subseteq siteBlobs[x]

ContentInv == PushesBacked /\ TagsPresent /\ SitesClosed

\* A step takes no content away.
Grows ==
    /\ blobs \subseteq blobs'
    /\ manifests \subseteq manifests'
    /\ sboms \subseteq sboms'
    /\ indexes \subseteq indexes'
    /\ \A x \in Site : siteBlobs[x] \subseteq siteBlobs'[x]
    /\ \A x \in Site : siteManifests[x] \subseteq siteManifests'[x]
    /\ \A x \in Site : siteIndexes[x] \subseteq siteIndexes'[x]

\* Blobs, manifests and indexes are only ever added: pruning deletes referrers
\* and signatures alone.
LEMMA PushGrows ==
    ASSUME RegistryOK, NEW p \in Pusher, Push(p)
    PROVE  Grows
<1>1. CASE CopyBlob(p)
  BY <1>1 DEF CopyBlob, Grows, RegistryOK, repository
<1>2. CASE CopyManifest(p)
  BY <1>2 DEF CopyManifest, Grows, RegistryOK, repository
<1>3. CASE TagSite(p) \/ Copied(p)
  BY <1>3 DEF TagSite, Copied, Grows, RegistryOK, repository
<1>4. CASE Start(p) \/ Stops(p) \/ PushLayer(p) \/ LayersPushed(p) \/ PushManifest(p)
           \/ PushSBOM(p) \/ PushIndex(p)
  BY <1>4 DEF Start, Stops, PushLayer, LayersPushed, PushManifest, PushSBOM, PushIndex,
              Grows, registry, repository, sites
<1>5. CASE Sign(p) \/ SignedAll(p) \/ AttachReports(p) \/ ListDocuments(p)
           \/ AttachDocument(p) \/ DocumentsAttached(p) \/ ListProvenance(p)
           \/ Attest(p) \/ Attested(p)
  BY <1>5 DEF Sign, SignedAll, AttachReports, ListDocuments, AttachDocument,
              DocumentsAttached, ListProvenance, Attest, Attested,
              Grows, registry, repository, sites
<1>6. CASE EnterSite(p) \/ SitesTagged(p) \/ TagPackage(p) \/ PruneList(p)
           \/ PruneSignatures(p) \/ PruneReport(p) \/ PruneRefused(p) \/ Pruned(p)
  BY <1>6 DEF EnterSite, SitesTagged, TagPackage, PruneList, PruneSignatures,
              PruneReport, PruneRefused, Pruned, Grows, registry, repository, sites
<1> QED
  BY <1>1, <1>2, <1>3, <1>4, <1>5, <1>6 DEF Push

\* So a package that is there in full stays there.
LEMMA PresentGrows ==
    ASSUME Grows, NEW s, Present(s)
    PROVE  Present(s)'
BY DEF Grows, Present

\* A pusher that does not move keeps what backs it.
LEMMA BackedGrows ==
    ASSUME Grows, RegistryOK, NEW s, NEW label, NEW left, NEW n,
           Fits(label, left, n), Backed(s, label, left, n)
    PROVE  Backed(s, label, left, n)'
<1>1. label \in Indexed => Present(s)'
  BY PresentGrows DEF Backed
<1>2. label = "site_tag" => n.of \in Site
  BY DEF Fits, PlacedType
<1>3. label = "sign" /\ n.kind = "component" => n.of \in Site
  BY DEF Fits, NodeType, PlacedType, ReferrerType, Index
<1> QED
  BY <1>1, <1>2, <1>3 DEF Backed, Ready, Grows

\* Nor do the others, when one pusher moves.
LEMMA OthersBacked ==
    ASSUME Grows, RegistryOK, PushersOK, PushesBacked, NEW p \in Pusher,
           NEW q \in Pusher, pc'[q] = pc[q], todo'[q] = todo[q], node'[q] = node[q],
           job'[q] = job[q]
    PROVE  Backed(job[q].package, pc[q], todo[q], node[q])'
<1>1. /\ Fits(pc[q], todo[q], node[q])
      /\ Backed(job[q].package, pc[q], todo[q], node[q])
  BY DEF PushersOK, PushesBacked
<1>2. \A s, label, left, n :
        Fits(label, left, n) /\ Backed(s, label, left, n) => Backed(s, label, left, n)'
  BY BackedGrows
<1> QED
  BY <1>1, <1>2

\* A step that needs no more than the index there is backed by it.
LEMMA MoveBacked ==
    ASSUME Grows, RegistryOK, PushersOK, PushesBacked, NEW p \in Pusher,
           NEW label, NEW left, NEW n, At(p, label, left, n),
           label \notin {"layers", "manifests", "index", "site_tag"},
           label = "sign" => n.kind # "component",
           label \in Indexed => pc[p] \in Indexed
    PROVE  PushesBacked'
<1>1. ASSUME NEW q \in Pusher, q # p
      PROVE  Backed(job[q].package, pc[q], todo[q], node[q])'
  <2>1. pc'[q] = pc[q] /\ todo'[q] = todo[q] /\ node'[q] = node[q] /\ job'[q] = job[q]
    BY <1>1 DEF At, PushersOK
  <2> QED
    BY <2>1, OthersBacked
<1>2. Backed(job[p].package, pc[p], todo[p], node[p])'
  <2>1. pc'[p] = label /\ todo'[p] = left /\ node'[p] = n /\ job'[p] = job[p]
    BY DEF At, PushersOK
  <2>2. pc[p] \in Indexed => Present(job[p].package)'
    <3>1. \A s : Present(s) => Present(s)'
      BY PresentGrows
    <3>2. pc[p] \in Indexed => Present(job[p].package)
      BY DEF PushesBacked, Backed
    <3> QED
      BY <2>1, <3>1, <3>2
  <2> QED
    BY <2>1, <2>2 DEF Backed
<1> QED
  BY <1>1, <1>2 DEF PushesBacked

\* A step starts a push, moves it on, or leaves it at its step.
LEMMA PushMoves ==
    ASSUME PushersOK, NEW p \in Pusher, Push(p)
    PROVE  \/ Start(p)
           \/ Sign(p) \/ CopyBlob(p) \/ CopyManifest(p)
           \/ \E label, left, n : At(p, label, left, n)
<1>1. CASE Stops(p) \/ LayersPushed(p) \/ PushSBOM(p) \/ PushIndex(p)
  BY <1>1 DEF Stops, LayersPushed, PushSBOM, PushIndex, Goto
<1>2. CASE PushLayer(p) \/ PushManifest(p)
  BY <1>2 DEF PushLayer, PushManifest, Strike
<1>3. CASE SignedAll(p)
  <2>1. node[p].kind \in {"index", "reports", "vex", "component"}
    BY <1>3 DEF SignedAll, PushersOK, Fits, NodeType, Index, ReferrerType, PlacedType
  <2>2. CASE node[p].kind = "index"
    BY <1>3, <2>2 DEF SignedAll, Goto
  <2>3. CASE node[p].kind = "reports"
    BY <1>3, <2>3 DEF SignedAll, Goto
  <2>4. CASE node[p].kind = "vex"
    BY <1>3, <2>4 DEF SignedAll, Goto
  <2>5. CASE node[p].kind = "component"
    BY <1>3, <2>5 DEF SignedAll
  <2> QED
    BY <2>1, <2>2, <2>3, <2>4, <2>5
<1>4. CASE AttachReports(p) \/ AttachDocument(p) \/ DocumentsAttached(p)
  BY <1>4 DEF AttachReports, AttachDocument, DocumentsAttached, Goto
<1>5. CASE ListDocuments(p) \/ Attest(p)
  BY <1>5 DEF ListDocuments, Attest, Strike
<1>6. CASE ListProvenance(p) \/ Attested(p)
  BY <1>6 DEF ListProvenance, Attested, Goto
<1>7. CASE EnterSite(p) \/ Copied(p) \/ TagSite(p) \/ SitesTagged(p)
  BY <1>7 DEF EnterSite, Copied, TagSite, SitesTagged, Goto
<1>8. CASE TagPackage(p) \/ PruneList(p) \/ PruneSignatures(p) \/ PruneReport(p) \/ Pruned(p)
  BY <1>8 DEF TagPackage, PruneList, PruneSignatures, PruneReport, Pruned, Goto
<1>9. CASE PruneRefused(p)
  BY <1>9 DEF PruneRefused, Goto, Strike
<1> QED
  BY <1>1, <1>2, <1>3, <1>4, <1>5, <1>6, <1>7, <1>8, <1>9 DEF Push

\* Every step leaves each push what it relies on.
LEMMA PushesStayBacked ==
    ASSUME RegistryOK, PushersOK, ContentInv, NEW p \in Pusher, Push(p)
    PROVE  PushesBacked'
<1> USE ConstantsAssumption
<1> DEFINE s == job[p].package
<1>1. Grows
  BY PushGrows
<1>2. PushesBacked /\ Backed(s, pc[p], todo[p], node[p])
  BY DEF ContentInv, PushesBacked
<1>3. Fits(pc[p], todo[p], node[p])
  BY DEF PushersOK
<1>4. ASSUME NEW q \in Pusher, q # p
      PROVE  Backed(job[q].package, pc[q], todo[q], node[q])'
  <2>1. CASE Start(p)
    <3>1. pc'[q] = pc[q] /\ todo'[q] = todo[q] /\ node'[q] = node[q] /\ job'[q] = job[q]
      BY <2>1, <1>4 DEF Start, PushersOK
    <3> QED
      BY <1>1, <1>2, <3>1, OthersBacked
  <2>2. CASE Sign(p) \/ CopyBlob(p) \/ CopyManifest(p)
    <3>1. pc'[q] = pc[q] /\ todo'[q] = todo[q] /\ node'[q] = node[q] /\ job'[q] = job[q]
      BY <2>2 DEF Sign, CopyBlob, CopyManifest
    <3> QED
      BY <1>1, <1>2, <3>1, OthersBacked
  <2>3. CASE \E label, left, n : At(p, label, left, n)
    <3>1. pc'[q] = pc[q] /\ todo'[q] = todo[q] /\ node'[q] = node[q] /\ job'[q] = job[q]
      BY <2>3, <1>4 DEF At, PushersOK
    <3> QED
      BY <1>1, <1>2, <3>1, OthersBacked
  <2> QED
    BY <2>1, <2>2, <2>3, PushMoves
<1> DEFINE Mine == Backed(job[p].package, pc[p], todo[p], node[p])
<1>5. ASSUME Mine'
      PROVE  PushesBacked'
  BY <1>4, <1>5 DEF PushesBacked
<1>6. CASE Start(p)
  <2>1. PICK j \in Jobs :
          /\ job' = [job EXCEPT ![p] = j]
          /\ todo' = [todo EXCEPT ![p] = UNION {Layers[c] : c \in Holds[j.package]}]
    BY <1>6 DEF Start
  <2>2. /\ pc'[p] = "layers" /\ job'[p] = j
        /\ todo'[p] = Wanted(j.package)
    BY <1>6, <2>1 DEF Start, PushersOK, Wanted
  <2> QED
    BY <1>5, <2>2 DEF Backed, Indexed, Wanted
<1>7. CASE PushLayer(p)
  <2>1. PICK b \in todo[p] : blobs' = blobs \cup {b} /\ Strike(p, b)
    BY <1>7 DEF PushLayer
  <2>2. pc'[p] = "layers" /\ todo'[p] = todo[p] \ {b} /\ job'[p] = job[p]
    BY <1>7, <2>1 DEF PushLayer, Strike, At, PushersOK
  <2>3. Wanted(s) \subseteq blobs \cup todo[p]
    BY <1>2, <1>7 DEF PushLayer, Backed
  <2> QED
    BY <1>5, <2>1, <2>2, <2>3 DEF Backed, Indexed, Wanted
<1>8. CASE LayersPushed(p)
  <2>1. pc'[p] = "manifests" /\ todo'[p] = Holds[s] /\ job'[p] = job[p]
    BY <1>8 DEF LayersPushed, Goto, At, PushersOK
  <2>2. Wanted(s) \subseteq blobs'
    BY <1>1, <1>2, <1>8 DEF LayersPushed, Backed, Grows
  <2> QED
    BY <1>5, <2>1, <2>2 DEF Backed, Indexed, Wanted
<1>9. CASE PushManifest(p)
  <2>1. PICK c \in todo[p] : manifests' = manifests \cup {c} /\ Strike(p, c)
    BY <1>9 DEF PushManifest
  <2>2. pc'[p] = "manifests" /\ todo'[p] = todo[p] \ {c} /\ job'[p] = job[p]
    BY <1>9, <2>1 DEF PushManifest, Strike, At, PushersOK
  <2>3. Wanted(s) \subseteq blobs' /\ Holds[s] \subseteq manifests \cup todo[p]
    BY <1>1, <1>2, <1>9 DEF PushManifest, Backed, Grows
  <2> QED
    BY <1>5, <2>1, <2>2, <2>3 DEF Backed, Indexed, Wanted
<1>10. CASE PushSBOM(p)
  <2>1. pc'[p] \in {"index", "failed"} /\ job'[p] = job[p] /\ s \in sboms'
    BY <1>10 DEF PushSBOM, Goto, At, PushersOK
  <2>2. Wanted(s) \subseteq blobs' /\ Holds[s] \subseteq manifests'
    BY <1>1, <1>2, <1>10 DEF PushSBOM, Backed, Grows
  <2> QED
    BY <1>5, <2>1, <2>2 DEF Backed, Indexed, Wanted
<1>11. CASE PushIndex(p)
  <2>1. /\ pc'[p] = "sign" /\ node'[p] = Index(s) /\ job'[p] = job[p]
        /\ s \in indexes'
    BY <1>11 DEF PushIndex, At, PushersOK
  <2>2. Wanted(s) \subseteq blobs' /\ Holds[s] \subseteq manifests' /\ s \in sboms'
    BY <1>1, <1>2, <1>11 DEF PushIndex, Backed, Grows
  <2>3. Present(s)'
    BY <2>1, <2>2 DEF Present, Wanted
  <2> QED
    BY <1>5, <2>1, <2>3 DEF Backed, Indexed, Index
<1>12. CASE Sign(p) \/ CopyBlob(p) \/ CopyManifest(p)
  <2>1. pc'[p] = pc[p] /\ todo'[p] = todo[p] /\ node'[p] = node[p] /\ job'[p] = job[p]
    BY <1>12 DEF Sign, CopyBlob, CopyManifest
  <2> QED
    BY <1>1, <1>2, <1>5, <2>1, OthersBacked
<1>13. CASE SignedAll(p)
  <2>1. CASE node[p].kind # "component"
    <3>1. node[p].kind \in {"index", "reports", "vex"}
      BY <2>1, <1>3, <1>13
         DEF SignedAll, Fits, NodeType, Index, ReferrerType, PlacedType
    <3>2. PICK label \in {"reports", "documents"} : \E left : At(p, label, left, None)
      BY <1>13, <3>1 DEF SignedAll, Goto
    <3>3. label \notin {"layers", "manifests", "index", "sign", "site_tag"}
      BY <3>2
    <3>4. pc[p] \in Indexed
      BY <1>13 DEF SignedAll, Indexed
    <3> QED
      BY <1>1, <1>2, <3>2, <3>3, <3>4, MoveBacked
  <2>2. CASE node[p].kind = "component"
    <3>1. pc'[p] = "site_tag" /\ node'[p] = node[p] /\ job'[p] = job[p]
      BY <1>13, <2>2 DEF SignedAll, At, PushersOK
    <3>2. Present(s) /\ Ready(node[p].of, node[p].members)
      BY <1>2, <1>13, <2>2 DEF SignedAll, Backed, Indexed
    <3>3. Present(s)' /\ siteManifests' = siteManifests /\ siteIndexes' = siteIndexes
      BY <1>13, <3>1, <3>2 DEF SignedAll, Present, registry, repository, sites
    <3> QED
      BY <1>5, <3>1, <3>2, <3>3 DEF Backed, Ready, Indexed
  <2> QED
    BY <2>1, <2>2
<1>14. CASE AttachReports(p)
  <2>1. PICK label, left, n :
          /\ label \in {"sign", "documents"}
          /\ At(p, label, left, n)
          /\ label = "sign" => n.kind = "reports"
    BY <1>14 DEF AttachReports, Goto, Reports
  <2> QED
    BY <1>1, <1>2, <1>14, <2>1, MoveBacked DEF AttachReports, Indexed
<1>15. CASE AttachDocument(p)
  <2>1. At(p, "sign", todo[p], node[p]) /\ pc[p] = "attach"
    BY <1>15 DEF AttachDocument
  <2>2. node[p].kind = "vex"
    BY <1>3, <2>1 DEF Fits
  <2> QED
    BY <1>1, <1>2, <2>1, <2>2, MoveBacked DEF Indexed
<1>16. CASE Copied(p)
  <2>1. pc'[p] = "sign" /\ node'[p] = node[p] /\ job'[p] = job[p] /\ pc[p] = "copy"
    BY <1>16 DEF Copied, At, PushersOK
  <2>2. node[p].of \in Site /\ node[p].members \subseteq siteManifests[node[p].of]
    BY <1>3, <1>16 DEF Copied, Missing, Fits, PlacedType
  <2>3. Several(node[p].members) => node[p].members \in siteIndexes'[node[p].of]
    BY <1>16, <2>2 DEF Copied, RegistryOK
  <2>4. Present(s)' /\ siteManifests' = siteManifests
    BY <1>2, <1>16, <2>1 DEF Copied, Backed, Indexed, Present, repository
  <2> QED
    BY <1>5, <2>1, <2>2, <2>3, <2>4 DEF Backed, Ready, Indexed
<1>17. CASE \/ Stops(p) \/ ListDocuments(p) \/ DocumentsAttached(p) \/ ListProvenance(p)
            \/ Attest(p) \/ Attested(p) \/ EnterSite(p) \/ TagSite(p) \/ SitesTagged(p)
            \/ TagPackage(p) \/ PruneList(p) \/ PruneSignatures(p) \/ PruneReport(p)
            \/ PruneRefused(p) \/ Pruned(p)
  <2>1. PICK label, left, n :
          /\ At(p, label, left, n)
          /\ label \notin {"layers", "manifests", "index", "sign", "site_tag"}
          /\ label \in Indexed => pc[p] \in Indexed
    <3>1. CASE Stops(p)
      BY <3>1 DEF Stops, Goto, Indexed
    <3>2. CASE ListDocuments(p)
      BY <3>2 DEF ListDocuments, Strike, Indexed
    <3>3. CASE DocumentsAttached(p) \/ ListProvenance(p) \/ Attested(p)
      BY <3>3 DEF DocumentsAttached, ListProvenance, Attested, Goto, Indexed
    <3>4. CASE Attest(p)
      BY <3>4 DEF Attest, Strike, Indexed
    <3>5. CASE EnterSite(p)
      BY <3>5 DEF EnterSite, Indexed
    <3>6. CASE TagSite(p) \/ SitesTagged(p) \/ TagPackage(p)
      BY <3>6 DEF TagSite, SitesTagged, TagPackage, Goto, Indexed
    <3>7. CASE PruneList(p)
      BY <3>7 DEF PruneList, Goto, Indexed
    <3>8. CASE PruneSignatures(p)
      <4>1. PICK r \in todo[p] : At(p, "delete", todo[p] \ {r}, r)
        BY <3>8 DEF PruneSignatures
      <4> QED
        BY <4>1 DEF Indexed
    <3>9. CASE PruneReport(p) \/ Pruned(p)
      <4>1. At(p, "stale", todo[p], None) \/ At(p, "done", {}, None)
        BY <3>9 DEF PruneReport, Pruned, Goto
      <4> QED
        BY <4>1 DEF Indexed
    <3>10. CASE PruneRefused(p)
      <4>1. CASE pc[p] = "prune"
        BY <3>10, <4>1 DEF PruneRefused, Goto, Indexed
      <4>2. CASE pc[p] = "stale"
        <5>1. PICK r \in todo[p] : At(p, "stale", todo[p] \ {r}, None)
          BY <3>10, <4>2 DEF PruneRefused, Strike
        <5> QED
          BY <5>1 DEF Indexed
      <4>3. CASE pc[p] = "delete"
        BY <3>10, <4>3 DEF PruneRefused, Goto, Indexed
      <4> QED
        BY <3>10, <4>1, <4>2, <4>3 DEF PruneRefused
    <3> QED
      BY <1>17, <3>1, <3>2, <3>3, <3>4, <3>5, <3>6, <3>7, <3>8, <3>9, <3>10
  <2> QED
    BY <1>1, <1>2, <2>1, MoveBacked
<1> QED
  BY <1>6, <1>7, <1>8, <1>9, <1>10, <1>11, <1>12, <1>13, <1>14, <1>15, <1>16, <1>17
     DEF Push

\* A tag moves only to a package whose index is there, and nothing goes.
LEMMA TagsStayPresent ==
    ASSUME PushersOK, RegistryOK, ContentInv, NEW p \in Pusher, Push(p)
    PROVE  TagsPresent'
<1>1. Grows
  BY PushGrows
<1>2. \A s : Present(s) => Present(s)'
  BY <1>1, PresentGrows
<1>3. CASE TagPackage(p)
  <2>1. Present(job[p].package)
    BY <1>3 DEF TagPackage, ContentInv, PushesBacked, Backed, Indexed
  <2> QED
    BY <1>2, <1>3, <2>1 DEF TagPackage, ContentInv, TagsPresent, RegistryOK
<1>4. CASE UNCHANGED tags
  BY <1>2, <1>4 DEF ContentInv, TagsPresent
<1>5. CASE Start(p) \/ Stops(p) \/ PushLayer(p) \/ LayersPushed(p) \/ PushManifest(p)
           \/ PushSBOM(p) \/ PushIndex(p) \/ Sign(p) \/ SignedAll(p) \/ AttachReports(p)
  BY <1>4, <1>5 DEF Start, Stops, PushLayer, LayersPushed, PushManifest, PushSBOM,
                    PushIndex, Sign, SignedAll, AttachReports, registry
<1>6. CASE ListDocuments(p) \/ AttachDocument(p) \/ DocumentsAttached(p)
           \/ ListProvenance(p) \/ Attest(p) \/ Attested(p)
  BY <1>4, <1>6 DEF ListDocuments, AttachDocument, DocumentsAttached, ListProvenance,
                    Attest, Attested, registry
<1>7. CASE EnterSite(p) \/ CopyBlob(p) \/ CopyManifest(p) \/ Copied(p) \/ TagSite(p)
           \/ SitesTagged(p) \/ PruneList(p) \/ PruneSignatures(p) \/ PruneReport(p)
           \/ PruneRefused(p) \/ Pruned(p)
  BY <1>4, <1>7 DEF EnterSite, CopyBlob, CopyManifest, Copied, TagSite, SitesTagged,
                    PruneList, PruneSignatures, PruneReport, PruneRefused, Pruned, registry
<1> QED
  BY <1>3, <1>5, <1>6, <1>7 DEF Push

\* A manifest reaches a site after the blobs it names, and a site's tag after
\* the manifests it names.
LEMMA SitesStayClosed ==
    ASSUME PushersOK, RegistryOK, ContentInv, NEW p \in Pusher, Push(p)
    PROVE  SitesClosed'
<1>1. Fits(pc[p], todo[p], node[p]) /\ Backed(job[p].package, pc[p], todo[p], node[p])
  BY DEF PushersOK, ContentInv, PushesBacked
<1>2. CASE CopyBlob(p)
  <2>1. /\ Grows
        /\ siteManifests' = siteManifests /\ siteIndexes' = siteIndexes /\ siteTags' = siteTags
    BY <1>2, PushGrows DEF CopyBlob
  <2> QED
    BY <2>1 DEF Grows, ContentInv, SitesClosed, Ready
<1>3. CASE CopyManifest(p)
  <2>1. PICK c \in Missing(node[p].of, node[p].members) :
          /\ Layers[c] \subseteq siteBlobs[node[p].of]
          /\ siteManifests' = [siteManifests EXCEPT ![node[p].of] = @ \cup {c}]
    BY <1>3 DEF CopyManifest
  <2>2. siteBlobs' = siteBlobs /\ siteIndexes' = siteIndexes /\ siteTags' = siteTags
    BY <1>3 DEF CopyManifest
  <2> QED
    BY <2>1, <2>2 DEF ContentInv, SitesClosed, Ready, RegistryOK
<1>4. CASE TagSite(p)
  <2>1. /\ siteBlobs' = siteBlobs /\ siteManifests' = siteManifests
        /\ siteIndexes' = siteIndexes
        /\ siteTags' = [siteTags EXCEPT ![node[p].of] =
                          IF node[p].of \in Pinned THEN @ ELSE node[p].members]
    BY <1>4 DEF TagSite
  <2>2. Ready(node[p].of, node[p].members)
    BY <1>1, <1>4 DEF TagSite, Backed
  <2> QED
    BY <2>1, <2>2 DEF ContentInv, SitesClosed, Ready, RegistryOK
<1>5. CASE UNCHANGED sites
  BY <1>5 DEF ContentInv, SitesClosed, Ready, sites
<1>6. CASE Start(p) \/ Stops(p) \/ PushLayer(p) \/ LayersPushed(p) \/ PushManifest(p)
           \/ PushSBOM(p) \/ PushIndex(p) \/ Sign(p) \/ SignedAll(p) \/ AttachReports(p)
  BY <1>5, <1>6 DEF Start, Stops, PushLayer, LayersPushed, PushManifest, PushSBOM,
                    PushIndex, Sign, SignedAll, AttachReports, registry
<1>7. CASE ListDocuments(p) \/ AttachDocument(p) \/ DocumentsAttached(p)
           \/ ListProvenance(p) \/ Attest(p) \/ Attested(p) \/ EnterSite(p)
  BY <1>5, <1>7 DEF ListDocuments, AttachDocument, DocumentsAttached, ListProvenance,
                    Attest, Attested, EnterSite, registry
<1>8. CASE SitesTagged(p) \/ TagPackage(p) \/ PruneList(p) \/ PruneSignatures(p)
           \/ PruneReport(p) \/ PruneRefused(p) \/ Pruned(p)
  BY <1>5, <1>8 DEF SitesTagged, TagPackage, PruneList, PruneSignatures, PruneReport,
                    PruneRefused, Pruned, registry
<1>9. CASE Copied(p)
  <2>1. /\ Grows
        /\ siteBlobs' = siteBlobs /\ siteManifests' = siteManifests /\ siteTags' = siteTags
    BY <1>9, PushGrows DEF Copied
  <2> QED
    BY <2>1 DEF Grows, ContentInv, SitesClosed, Ready
<1> QED
  BY <1>2, <1>3, <1>4, <1>6, <1>7, <1>8, <1>9 DEF Push

\* The inductive invariant behind the theorem below.
LEMMA ContentHolds == Spec => []ContentInv
<1>1. Init => ContentInv
  BY ConstantsAssumption
     DEF Init, ContentInv, PushesBacked, Backed, Indexed, TagsPresent, SitesClosed,
         Ready, Several
<1>2. TypeOK /\ ContentInv /\ [Next]_vars => ContentInv'
  <2> SUFFICES ASSUME RegistryOK, PushersOK, ContentInv, [Next]_vars
               PROVE  ContentInv'
    BY TypeParts
  <2>1. CASE UNCHANGED vars
    BY <2>1 DEF ContentInv, PushesBacked, Backed, Ready, TagsPresent, SitesClosed, Present,
                vars, registry, repository, sites
  <2>2. ASSUME NEW p \in Pusher, Push(p)
        PROVE  ContentInv'
    BY <2>2, PushesStayBacked, TagsStayPresent, SitesStayClosed DEF ContentInv
  <2> QED
    BY <2>1, <2>2 DEF Next
<1> QED
  BY <1>1, <1>2, TypeCorrect, PTL DEF Spec

\* A tag, of the package or of a component's site, names only content that is
\* there in full: with any number of pushers, however their pushes interleave
\* and wherever they stopped.
THEOREM TagsNameWhatIsThere == Spec => []TagsComplete
<1>1. ContentInv => TagsComplete
  BY DEF ContentInv, TagsPresent, SitesClosed, Ready, TagsComplete
<1> QED
  BY <1>1, ContentHolds, PTL


-----------------------------------------------------------------------------
(* What a push attaches, signs and deletes.                                *)

\* Reports are of a scan, and of no push; everything else that is attached is
\* of the push that attached it.
Attributed ==
    /\ \A r \in referrers : r.kind = "reports" => r.what \in Nat /\ r.by = None
    /\ \A r \in referrers, q \in Pusher, n \in 0..MaxPushes : r.by = <<q, n>> => n <= pushes[q]

\* Reports that may go: newer ones of the package are there.
Superseded(r) == r.kind = "reports" /\ r.what \in Nat /\ Newer(r) # {}

\* What a push has set out to delete is superseded, whatever others delete.
Pruning ==
    \A p \in Pusher :
        /\ pc[p] \in {"stale", "delete"} => \A r \in todo[p] : Superseded(r)
        /\ pc[p] = "delete" => Superseded(node[p])

\* The steps a push takes once it has signed the index, up to its tag.
Sealed == {"reports", "documents", "attach", "provenance", "attest", "sites", "copy",
           "site_tag", "tag"}

\* What a push attached it has signed, or is signing.
Vouched(p, r) ==
    \/ r.kind = "vex" /\ (Signed(r, job[p].signers) \/ (pc[p] = "sign" /\ node[p] = r))
    \/ r.kind = "provenance" /\ (r.what = None => job[p].signers = {})

\* How far a push is with its signatures; those of reports may go again.
Signing(p) ==
    /\ pc[p] = "sign" /\ node[p].kind # "reports" => Signed(node[p], job[p].signers \ unsigned[p])
    /\ pc[p] = "sign" /\ node[p].kind = "index" => node[p] = Index(job[p].package)
    /\ pc[p] \in Sealed \/ (pc[p] = "sign" /\ node[p].kind # "index") =>
          Signed(Index(job[p].package), job[p].signers)
    /\ pc[p] = "site_tag" => node[p].kind = "component" /\ Signed(node[p], job[p].signers)
    /\ pc[p] = "attach" => node[p].by = <<p, pushes[p]>>
    /\ pc[p] = "attest" /\ None \in todo[p] => job[p].signers = {}
    /\ pc[p] \notin Ended =>
          \A r \in referrers : r.by = <<p, pushes[p]>> => Vouched(p, r)

ReferrersInv == Attributed /\ Pruning /\ \A p \in Pusher : Signing(p)

\* A pusher that has not pushed has not started.
Idle == \A p \in Pusher : pushes[p] = 0 => pc[p] = "ready"

\* What holds as long as one pusher pushes alone.
LoneInv ==
    OnePusher =>
        /\ DocumentsOnce /\ SignaturesAnchored
        /\ \A p \in Pusher :
              /\ pc[p] = "attach" =>
                    \A r \in Carried(node[p].of, "vex") : r.what # node[p].what
              /\ pc[p] = "sign" /\ node[p].kind = "reports" => node[p] \in referrers
              /\ pc[p] = "delete" => SignaturesOf(node[p]) = {}

\* A step changes only its own pusher's place, and no pusher unpushes.
LEMMA PushLocal ==
    ASSUME PushersOK, NEW p \in Pusher, Push(p)
    PROVE  /\ \A q \in Pusher : q # p =>
                 /\ pc'[q] = pc[q] /\ job'[q] = job[q] /\ todo'[q] = todo[q]
                 /\ node'[q] = node[q] /\ unsigned'[q] = unsigned[q] /\ pushes'[q] = pushes[q]
           /\ pushes[p] \in Nat /\ pushes'[p] \in Nat /\ pushes[p] <= pushes'[p]
           /\ ~Start(p) => job'[p] = job[p] /\ pushes'[p] = pushes[p] /\ pc[p] \notin Ended
<1> USE ConstantsAssumption
<1>1. pushes \in [Pusher -> Nat]
  BY DEF PushersOK
<1>2. CASE Start(p)
  <2>1. PICK j \in Jobs :
          /\ job' = [job EXCEPT ![p] = j]
          /\ todo' = [todo EXCEPT ![p] = UNION {Layers[c] : c \in Holds[j.package]}]
    BY <1>2 DEF Start
  <2>2. /\ pc' = [pc EXCEPT ![p] = "layers"]
        /\ pushes' = [pushes EXCEPT ![p] = @ + 1]
        /\ UNCHANGED <<node, unsigned>>
    BY <1>2 DEF Start
  <2>3. \A q \in Pusher : q # p =>
            /\ pc'[q] = pc[q] /\ job'[q] = job[q] /\ todo'[q] = todo[q]
            /\ node'[q] = node[q] /\ unsigned'[q] = unsigned[q] /\ pushes'[q] = pushes[q]
    BY <2>1, <2>2 DEF PushersOK
  <2>4. pushes[p] \in Nat /\ pushes'[p] = pushes[p] + 1
    BY <1>1, <2>2
  <2> QED
    BY <1>2, <2>3, <2>4
<1>3. CASE ~Start(p)
  <2>1. pc[p] \notin Ended
    BY <1>3 DEF Push, Stops, PushLayer, LayersPushed, PushManifest, PushSBOM, PushIndex, Sign,
                SignedAll, AttachReports, ListDocuments, AttachDocument, DocumentsAttached,
                ListProvenance, Attest, Attested, EnterSite, CopyBlob, CopyManifest, Copied,
                TagSite, SitesTagged, TagPackage, PruneList, PruneSignatures, PruneReport,
                PruneRefused, Pruned, Ended
  <2>2. CASE Sign(p) \/ CopyBlob(p) \/ CopyManifest(p)
    BY <1>1, <2>1, <2>2 DEF Sign, CopyBlob, CopyManifest, PushersOK
  <2>3. CASE \E label, left, n : At(p, label, left, n)
    <3>1. PICK label, left, n : At(p, label, left, n)
      BY <2>3
    <3> QED
      BY <1>1, <2>1, <3>1 DEF At, PushersOK
  <2> QED
    BY <1>3, <2>2, <2>3, PushMoves
<1> QED
  BY <1>2, <1>3

\* The steps that attach, delete, sign and unsign.
LEMMA WhatChanges ==
    ASSUME NEW p \in Pusher, Push(p)
    PROVE  /\ AttachReports(p) \/ AttachDocument(p) \/ Attest(p) \/ PruneReport(p)
              \/ referrers' = referrers
           /\ Sign(p) \/ PruneSignatures(p) \/ PruneRefused(p) \/ signatures' = signatures
           /\ TagPackage(p) \/ tags' = tags
           /\ TagSite(p) \/ siteTags' = siteTags
BY DEF Push, Start, Stops, PushLayer, LayersPushed, PushManifest, PushSBOM, PushIndex, Sign,
       SignedAll, AttachReports, ListDocuments, AttachDocument, DocumentsAttached, ListProvenance,
       Attest, Attested, EnterSite, CopyBlob, CopyManifest, Copied, TagSite, SitesTagged,
       TagPackage, PruneList, PruneSignatures, PruneReport, PruneRefused, Pruned, registry,
       repository, sites

\* What a step attaches.
LEMMA WhatIsAttached ==
    ASSUME RegistryOK, PushersOK, NEW p \in Pusher, Push(p), NEW r \in referrers' \ referrers
    PROVE  \/ /\ AttachReports(p)
              /\ r.kind = "reports" /\ r.what \in Nat /\ r.by = None
           \/ /\ AttachDocument(p)
              /\ r = node[p] /\ r.kind = "vex"
           \/ /\ Attest(p)
              /\ r.kind = "provenance" /\ r.by = <<p, pushes[p]>> /\ r.what \in todo[p]
<1> USE ConstantsAssumption
<1>1. pc[p] # "ready" => job[p] \in JobType
  BY DEF PushersOK
<1>2. CASE AttachReports(p)
  <2>1. r = Reports(job[p].package, job[p].scan) /\ pc[p] = "reports"
    BY <1>2 DEF AttachReports
  <2> QED
    BY <1>1, <1>2, <2>1 DEF Reports, JobType
<1>3. CASE AttachDocument(p)
  <2>1. r = node[p] /\ pc[p] = "attach"
    BY <1>3 DEF AttachDocument
  <2>2. r.kind = "vex"
    BY <2>1 DEF PushersOK, Fits
  <2> QED
    BY <1>3, <2>1, <2>2
<1>4. CASE Attest(p)
  <2>1. PICK g \in todo[p] : r = Attestation(job[p].package, g, p)
    BY <1>4 DEF Attest
  <2> QED
    BY <1>4, <2>1 DEF Attestation
<1>5. CASE PruneReport(p)
  BY <1>5 DEF PruneReport
<1> QED
  BY <1>2, <1>3, <1>4, <1>5, WhatChanges

\* What a step takes away: superseded reports, and the signatures of such.
LEMMA WhatIsTaken ==
    ASSUME Pruning, NEW p \in Pusher, Push(p)
    PROVE  /\ \A r \in referrers \ referrers' :
                 PruneReport(p) /\ r = node[p] /\ referrers' = referrers \ {r} /\ Superseded(r)
           /\ \A g \in signatures \ signatures' :
                 pc[p] = "stale" /\ g.of \in todo[p] /\ Superseded(g.of)
<1>1. ASSUME NEW r \in referrers \ referrers'
      PROVE  PruneReport(p) /\ r = node[p] /\ referrers' = referrers \ {r} /\ Superseded(r)
  <2>1. PruneReport(p)
    BY <1>1, WhatChanges DEF AttachReports, AttachDocument, Attest
  <2> QED
    BY <1>1, <2>1 DEF PruneReport, Pruning
<1>2. ASSUME NEW g \in signatures \ signatures'
      PROVE  pc[p] = "stale" /\ g.of \in todo[p] /\ Superseded(g.of)
  <2>1. PruneSignatures(p) \/ PruneRefused(p)
    BY <1>2, WhatChanges DEF Sign
  <2>2. pc[p] = "stale" /\ \E r \in todo[p] : g \in SignaturesOf(r)
    BY <1>2, <2>1 DEF PruneSignatures, PruneRefused
  <2>3. g.of \in todo[p]
    BY <2>2 DEF SignaturesOf
  <2> QED
    BY <2>2, <2>3 DEF Pruning
<1> QED
  BY <1>1, <1>2

\* So reports that are superseded stay so.
LEMMA SupersededStays ==
    ASSUME Attributed, Pruning, NEW p \in Pusher, Push(p), NEW r, Superseded(r)
    PROVE  Superseded(r)'
<1>1. PICK q \in Newer(r) : TRUE
  BY DEF Superseded
<1>2. q \in referrers /\ q.kind = "reports" /\ q.of = r.of /\ q.what > r.what /\ q.what \in Nat
  BY <1>1 DEF Newer, Carried, Attributed
<1>3. \E n \in referrers' : n.kind = "reports" /\ n.of = r.of /\ n.what > r.what
  <2>1. CASE q \in referrers'
    BY <1>2, <2>1
  <2>2. CASE q \notin referrers'
    <3>1. Superseded(q) /\ referrers' = referrers \ {q}
      BY <1>2, <2>2, WhatIsTaken
    <3>2. PICK n \in Newer(q) : TRUE
      BY <3>1 DEF Superseded
    <3>3. n \in referrers /\ n.kind = "reports" /\ n.of = q.of /\ n.what > q.what /\ n.what \in Nat
      BY <3>2 DEF Newer, Carried, Attributed
    <3>4. n # q /\ n.what > r.what
      BY <1>2, <3>3 DEF Superseded
    <3> QED
      BY <1>2, <3>1, <3>3, <3>4
  <2> QED
    BY <2>1, <2>2
<1> QED
  BY <1>3 DEF Superseded, Newer, Carried

\* Reports that a push sets out to delete are superseded.
LEMMA StaleAreSuperseded ==
    ASSUME Attributed, NEW s, NEW keep \in Nat, NEW r \in Stale(s, keep)
    PROVE  Superseded(r)
<1>1. keep # 0 /\ r \in Carried(s, "reports") /\ Cardinality(Newer(r)) >= keep
  BY DEF Stale
<1>2. Newer(r) # {}
  BY <1>1, FS_EmptySet
<1> QED
  BY <1>1, <1>2 DEF Superseded, Carried, Attributed

LEMMA PruningStep ==
    ASSUME PushersOK, Attributed, Pruning, NEW p \in Pusher, Push(p)
    PROVE  Pruning'
<1> USE ConstantsAssumption
<1>1. \A r : Superseded(r) => Superseded(r)'
  BY SupersededStays
<1> DEFINE Set(label, left, n) ==
              /\ label \in {"stale", "delete"} => \A r \in left : Superseded(r)
              /\ label = "delete" => Superseded(n)
<1>2. ASSUME NEW q \in Pusher, q # p
      PROVE  /\ (pc[q] \in {"stale", "delete"} => \A r \in todo[q] : Superseded(r))'
             /\ (pc[q] = "delete" => Superseded(node[q]))'
  <2>1. pc'[q] = pc[q] /\ todo'[q] = todo[q] /\ node'[q] = node[q]
    BY <1>2, PushLocal
  <2>2. PICK n : n = node[q]
    OBVIOUS
  <2>3. Set(pc[q], todo[q], n)
    BY <2>2 DEF Pruning
  <2>4. pc'[q] = "delete" => Superseded(n)'
    BY <1>1, <2>1, <2>3
  <2> QED
    BY <1>1, <2>1, <2>2, <2>3, <2>4 DEF Superseded, Newer, Carried
<1>3. ASSUME NEW label, NEW left, NEW n, At(p, label, left, n), Set(label, left, n)
      PROVE  Pruning'
  <2>1. pc'[p] = label /\ todo'[p] = left /\ node'[p] = n
    BY <1>3 DEF At, PushersOK
  <2>2. label = "delete" => Superseded(n)'
    BY <1>1, <1>3
  <2>3. /\ (pc[p] \in {"stale", "delete"} => \A r \in todo[p] : Superseded(r))'
        /\ (pc[p] = "delete" => Superseded(node[p]))'
    BY <1>1, <1>3, <2>1, <2>2 DEF Superseded, Newer, Carried
  <2> QED
    BY <1>2, <2>3 DEF Pruning
<1>4. CASE pc'[p] \notin {"stale", "delete"}
  BY <1>2, <1>4 DEF Pruning
<1>5. CASE PruneList(p)
  <2>1. At(p, "stale", Stale(job[p].package, job[p].keep), None) /\ pc[p] = "prune"
    BY <1>5 DEF PruneList, Goto
  <2>2. job[p].keep \in Nat
    BY <2>1 DEF PushersOK, JobType
  <2> QED
    BY <1>3, <2>1, <2>2, StaleAreSuperseded
<1>6. CASE PruneSignatures(p)
  <2>1. PICK r \in todo[p] : At(p, "delete", todo[p] \ {r}, r) /\ pc[p] = "stale"
    BY <1>6 DEF PruneSignatures
  <2> QED
    BY <1>3, <2>1 DEF Pruning
<1>7. CASE PruneReport(p)
  BY <1>3, <1>7 DEF PruneReport, Goto, Pruning
<1>8. CASE PruneRefused(p)
  <2>1. CASE pc[p] = "prune"
    BY <1>3, <1>8, <2>1 DEF PruneRefused, Goto
  <2>2. CASE pc[p] = "stale"
    <3>1. PICK r \in todo[p] : At(p, "stale", todo[p] \ {r}, None)
      BY <1>8, <2>2 DEF PruneRefused, Strike
    <3> QED
      BY <1>3, <2>2, <3>1 DEF Pruning
  <2>3. CASE pc[p] = "delete"
    BY <1>3, <1>8, <2>3 DEF PruneRefused, Goto, Pruning
  <2> QED
    BY <1>8, <2>1, <2>2, <2>3 DEF PruneRefused
<1>9. CASE /\ ~PruneList(p) /\ ~PruneSignatures(p) /\ ~PruneReport(p) /\ ~PruneRefused(p)
           /\ pc'[p] \in {"stale", "delete"}
  <2>1. CASE Start(p)
    BY <1>9, <2>1 DEF Start, PushersOK
  <2>2. CASE Sign(p) \/ CopyBlob(p) \/ CopyManifest(p)
    BY <1>9, <2>2 DEF Sign, CopyBlob, CopyManifest
  <2>3. ASSUME NEW label, NEW left, NEW n, At(p, label, left, n)
        PROVE  label = pc'[p]
    BY <2>3 DEF At, PushersOK
  <2>4. CASE SignedAll(p)
    <3>1. node[p].kind \in {"index", "reports", "vex", "component"}
      BY <2>4 DEF SignedAll, PushersOK, Fits, NodeType, Index, ReferrerType, PlacedType
    <3>2. \E label \in {"reports", "documents", "site_tag"} : \E left, n : At(p, label, left, n)
      BY <2>4, <3>1 DEF SignedAll, Goto
    <3> QED
      BY <1>9, <2>3, <3>2
  <2>5. CASE \/ Stops(p) \/ LayersPushed(p) \/ PushSBOM(p) \/ PushIndex(p) \/ AttachReports(p)
             \/ AttachDocument(p) \/ DocumentsAttached(p) \/ ListProvenance(p) \/ Attested(p)
             \/ Copied(p) \/ TagSite(p) \/ SitesTagged(p) \/ TagPackage(p) \/ Pruned(p)
    BY <1>9, <2>3, <2>5 DEF Stops, LayersPushed, PushSBOM, PushIndex, AttachReports, AttachDocument,
                            DocumentsAttached, ListProvenance, Attested, Copied, TagSite,
                            SitesTagged, TagPackage, Pruned, Goto
  <2>6. CASE PushLayer(p) \/ PushManifest(p) \/ ListDocuments(p) \/ Attest(p) \/ EnterSite(p)
    BY <1>9, <2>3, <2>6 DEF PushLayer, PushManifest, ListDocuments, Attest, EnterSite, Strike
  <2> QED
    BY <1>9, <2>1, <2>2, <2>4, <2>5, <2>6 DEF Push
<1> QED
  BY <1>4, <1>5, <1>6, <1>7, <1>8, <1>9

LEMMA AttributedStep ==
    ASSUME RegistryOK, PushersOK, Attributed, \A p \in Pusher : Signing(p),
           NEW p \in Pusher, Push(p)
    PROVE  Attributed'
<1>1. \A q \in Pusher : pushes[q] \in Nat /\ pushes'[q] \in Nat /\ pushes[q] <= pushes'[q]
  BY PushLocal, ConstantsAssumption DEF PushersOK
<1>2. ASSUME NEW r \in referrers'
      PROVE  /\ r.kind = "reports" => r.what \in Nat /\ r.by = None
             /\ \A q \in Pusher, n \in 0..MaxPushes : r.by = <<q, n>> => n <= pushes'[q]
  <2>1. CASE r \in referrers
    BY <1>1, <2>1 DEF Attributed
  <2>2. CASE r \notin referrers
    <3>1. CASE r.kind = "reports" /\ r.what \in Nat /\ r.by = None
      <4>1. \A q \in Pusher, n \in 0..MaxPushes : r.by # <<q, n>>
        BY <3>1, NoneAssumption, ConstantsAssumption
      <4> QED
        BY <3>1, <4>1
    <3>2. CASE r.kind \in {"vex", "provenance"} /\ r.by = <<p, pushes[p]>>
      BY <1>1, <3>2
    <3>3. AttachDocument(p) => node[p].by = <<p, pushes[p]>>
      BY DEF AttachDocument, Signing
    <3> QED
      BY <1>2, <2>2, <3>1, <3>2, <3>3, WhatIsAttached
  <2> QED
    BY <2>1, <2>2
<1> QED
  BY <1>2 DEF Attributed

\* What is not of reports stays signed.
LEMMA SignedStays ==
    ASSUME Pruning, NEW p \in Pusher, Push(p), NEW n, n.kind # "reports", NEW signers, Signed(n, signers)
    PROVE  Signed(n, signers)'
<1>1. ASSUME NEW g \in signers
      PROVE  [of |-> n, signer |-> g] \in signatures'
  <2>1. [of |-> n, signer |-> g] \in signatures
    BY DEF Signed
  <2>2. ~Superseded([of |-> n, signer |-> g].of)
    BY DEF Superseded
  <2> QED
    BY <2>1, <2>2, WhatIsTaken
<1> QED
  BY <1>1 DEF Signed

\* A push is no worse off for what another does.
LEMMA SigningOfOthers ==
    ASSUME RegistryOK, PushersOK, ReferrersInv, NEW p \in Pusher, Push(p), NEW q \in Pusher, q # p
    PROVE  Signing(q)'
<1>1. /\ pc'[q] = pc[q] /\ job'[q] = job[q] /\ todo'[q] = todo[q]
      /\ node'[q] = node[q] /\ unsigned'[q] = unsigned[q] /\ pushes'[q] = pushes[q]
  BY PushLocal
<1>2. Pruning /\ Signing(q) /\ pushes[q] \in Nat /\ pushes[p] \in Nat
  BY ConstantsAssumption DEF ReferrersInv, PushersOK
<1>3. PICK n, signers, rest, index :
        n = node[q] /\ signers = job[q].signers /\ rest = signers \ unsigned[q]
        /\ index = Index(job[q].package)
  OBVIOUS
<1>4. pc[q] = "sign" /\ n.kind # "reports" => Signed(n, rest)'
  BY <1>2, <1>3, SignedStays DEF Signing
<1>5. pc[q] \in Sealed \/ (pc[q] = "sign" /\ n.kind # "index") => Signed(index, signers)'
  <2>1. index.kind # "reports"
    BY <1>3 DEF Index
  <2> QED
    BY <1>2, <1>3, <2>1, SignedStays DEF Signing
<1>6. pc[q] = "site_tag" => n.kind = "component" /\ Signed(n, signers)'
  BY <1>2, <1>3, SignedStays DEF Signing
<1>7. ASSUME pc[q] \notin Ended, NEW r \in referrers', r.by = <<q, pushes[q]>>
      PROVE  Vouched(q, r)'
  <2>1. r \in referrers
    <3>1. AttachDocument(p) => node[p].by = <<p, pushes[p]>>
      BY DEF AttachDocument, ReferrersInv, Signing
    <3>2. <<q, pushes[q]>> # None /\ <<q, pushes[q]>> # <<p, pushes[p]>>
      BY <1>2, NoneAssumption
    <3> QED
      BY <1>7, <3>1, <3>2, WhatIsAttached
  <2>2. Vouched(q, r)
    BY <1>2, <1>7, <2>1 DEF Signing
  <2>3. r.kind = "vex" /\ Signed(r, signers) => Signed(r, signers)'
    BY <1>2, SignedStays
  <2> QED
    BY <1>1, <1>3, <2>2, <2>3 DEF Vouched, Signed
<1> QED
  BY <1>1, <1>2, <1>3, <1>4, <1>5, <1>6, <1>7 DEF Signing, Signed

\* What a push attached before a step of its own stays vouched for.
LEMMA VouchedStays ==
    ASSUME ReferrersInv, NEW p \in Pusher, Push(p), job'[p] = job[p],
           NEW r, Vouched(p, r),
           pc[p] = "sign" => unsigned[p] = {} \/ (pc'[p] = "sign" /\ node'[p] = node[p])
    PROVE  Vouched(p, r)'
<1>1. Pruning /\ Signing(p)
  BY DEF ReferrersInv
<1>2. PICK signers : signers = job[p].signers
  OBVIOUS
<1>3. r.kind = "vex" /\ Signed(r, signers) => Signed(r, signers)'
  BY <1>1, SignedStays
<1>4. r.kind = "vex" /\ pc[p] = "sign" /\ node[p] = r /\ unsigned[p] = {} => Signed(r, signers)
  BY <1>1, <1>2 DEF Signing, Signed
<1> QED
  BY <1>2, <1>3, <1>4 DEF Vouched, Signed

\* A step that is none of those that sign, and attaches nothing.
LEMMA SigningGoesOn ==
    ASSUME PushersOK, ReferrersInv, NEW p \in Pusher, Push(p), pc[p] \notin Ended,
           referrers' \subseteq referrers,
           NEW label, NEW left, NEW n, At(p, label, left, n),
           label \notin {"sign", "site_tag"},
           pc[p] = "sign" => label \in Ended \/ unsigned[p] = {},
           label \in Sealed => pc[p] \in Sealed,
           label = "attach" => n.by = <<p, pushes[p]>>,
           label = "attest" /\ None \in left => job[p].signers = {}
    PROVE  Signing(p)'
<1>1. /\ pc'[p] = label /\ node'[p] = n /\ todo'[p] = left /\ job'[p] = job[p]
      /\ pushes'[p] = pushes[p]
  BY DEF At, PushersOK
<1>2. Pruning /\ Signing(p)
  BY DEF ReferrersInv
<1>3. ASSUME label \in Sealed
      PROVE  Signed(Index(job[p].package), job[p].signers)'
  <2>1. PICK index, signers : index = Index(job[p].package) /\ signers = job[p].signers
    OBVIOUS
  <2>2. Signed(index, signers) /\ index.kind # "reports"
    BY <1>2, <1>3, <2>1 DEF Signing, Index
  <2>3. Signed(index, signers)'
    BY <1>2, <2>2, SignedStays
  <2> QED
    BY <1>1, <2>1, <2>3 DEF Signed
<1>4. ASSUME label \notin Ended, NEW r \in referrers', r.by = <<p, pushes[p]>>
      PROVE  Vouched(p, r)'
  <2>1. Vouched(p, r)
    BY <1>2, <1>4 DEF Signing
  <2> QED
    BY <1>1, <1>4, <2>1, VouchedStays
<1> QED
  BY <1>1, <1>3, <1>4 DEF Signing

\* A step that begins to sign a node.
LEMMA SigningBegins ==
    ASSUME PushersOK, ReferrersInv, NEW p \in Pusher, Push(p), pc[p] \notin Ended \cup {"sign"},
           NEW left, NEW n, At(p, "sign", left, n),
           \A r \in referrers' \ referrers :
               (r.kind = "vex" /\ r = n) \/ r.by # <<p, pushes[p]>>,
           n.kind = "index" => n = Index(job[p].package),
           n.kind # "index" => pc[p] \in Sealed
    PROVE  Signing(p)'
<1>1. /\ pc'[p] = "sign" /\ node'[p] = n /\ todo'[p] = left /\ job'[p] = job[p]
      /\ pushes'[p] = pushes[p] /\ unsigned'[p] = job[p].signers
  BY DEF At, PushersOK
<1>2. Pruning /\ Signing(p)
  BY DEF ReferrersInv
<1>3. ASSUME n.kind # "index"
      PROVE  Signed(Index(job[p].package), job[p].signers)'
  <2>1. PICK index, signers : index = Index(job[p].package) /\ signers = job[p].signers
    OBVIOUS
  <2>2. Signed(index, signers) /\ index.kind # "reports"
    BY <1>2, <1>3, <2>1 DEF Signing, Index
  <2>3. Signed(index, signers)'
    BY <1>2, <2>2, SignedStays
  <2> QED
    BY <1>1, <2>1, <2>3 DEF Signed
<1>4. ASSUME NEW r \in referrers', r.by = <<p, pushes[p]>>
      PROVE  Vouched(p, r)'
  <2>1. CASE r \in referrers
    <3>1. Vouched(p, r)
      BY <1>2, <1>4, <2>1 DEF Signing
    <3> QED
      BY <1>1, <3>1, VouchedStays
  <2>2. CASE r \notin referrers
    BY <1>1, <1>4, <2>2 DEF Vouched
  <2> QED
    BY <2>1, <2>2
<1> QED
  BY <1>1, <1>3, <1>4 DEF Signing, Signed, Sealed

LEMMA SigningStep ==
    ASSUME RegistryOK, PushersOK, ReferrersInv, NEW p \in Pusher, Push(p)
    PROVE  Signing(p)'
<1> USE ConstantsAssumption
<1>1. Attributed /\ Pruning /\ Signing(p) /\ pushes[p] \in Nat
  BY DEF ReferrersInv, PushersOK
<1>2. ~Start(p) => job'[p] = job[p] /\ pushes'[p] = pushes[p] /\ pc[p] \notin Ended
  BY PushLocal
<1>3. CASE Start(p)
  <2>1. /\ pc'[p] = "layers" /\ pushes'[p] = pushes[p] + 1 /\ pushes[p] < MaxPushes
        /\ referrers' = referrers
    BY <1>3 DEF Start, PushersOK, registry
  <2>2. \A r \in referrers' : r.by # <<p, pushes'[p]>>
    <3>1. pushes'[p] \in 0..MaxPushes /\ ~(pushes'[p] <= pushes[p])
      BY <1>1, <2>1
    <3> QED
      BY <1>1, <2>1, <3>1 DEF Attributed
  <2> QED
    BY <2>1, <2>2 DEF Signing, Sealed
<1>4. CASE Sign(p)
  <2>1. PICK g \in unsigned[p] :
          /\ signatures' = signatures \cup {[of |-> node[p], signer |-> g]}
          /\ unsigned' = [unsigned EXCEPT ![p] = @ \ {g}]
    BY <1>4 DEF Sign
  <2>2. /\ pc[p] = "sign" /\ UNCHANGED <<referrers, pc, job, todo, node, pushes>>
        /\ unsigned'[p] = unsigned[p] \ {g}
    BY <1>4, <2>1 DEF Sign, PushersOK
  <2>3. \A m, signers : Signed(m, signers) => Signed(m, signers)'
    BY <2>1 DEF Signed
  <2>4. node[p].kind # "reports" => Signed(node[p], job[p].signers \ unsigned[p])'
    BY <1>1, <2>1, <2>2 DEF Signing, Signed
  <2>5. node[p].kind # "index" => Signed(Index(job[p].package), job[p].signers)'
    BY <1>1, <2>2, <2>3 DEF Signing, Signed, Index
  <2>6. \A r \in referrers : r.by = <<p, pushes[p]>> => Vouched(p, r)'
    BY <1>1, <1>2, <1>4, <2>2, VouchedStays DEF Signing, Start, Ended
  <2>7. "sign" \notin Sealed
    BY DEF Sealed
  <2> QED
    BY <1>1, <2>2, <2>4, <2>5, <2>6, <2>7 DEF Signing, Index
<1>5. CASE CopyBlob(p) \/ CopyManifest(p)
  <2>1. /\ pc[p] = "copy"
        /\ UNCHANGED <<referrers, signatures, pc, job, todo, node, unsigned, pushes>>
    BY <1>5 DEF CopyBlob, CopyManifest
  <2> QED
    BY <1>1, <2>1 DEF Signing, Signed, Vouched, Index
<1>6. CASE SignedAll(p)
  <2>1. /\ pc[p] = "sign" /\ unsigned[p] = {}
        /\ UNCHANGED <<referrers, signatures>>
    BY <1>6 DEF SignedAll, registry
  <2>2. node[p].kind \in {"index", "reports", "vex", "component"}
    BY <2>1 DEF PushersOK, Fits, NodeType, Index, ReferrerType, PlacedType
  <2>3. \/ /\ node[p].kind # "component"
           /\ \E label \in {"reports", "documents"} : \E left : At(p, label, left, None)
        \/ /\ node[p].kind = "component"
           /\ At(p, "site_tag", todo[p], node[p])
    BY <1>6, <2>2 DEF SignedAll, Goto
  <2>4. /\ job'[p] = job[p] /\ pushes'[p] = pushes[p]
        /\ \/ /\ node[p].kind # "component"
              /\ pc'[p] \in {"reports", "documents"}
           \/ /\ node[p].kind = "component"
              /\ pc'[p] = "site_tag" /\ node'[p] = node[p]
    BY <2>3 DEF At, PushersOK
  <2>5. Signed(Index(job[p].package), job[p].signers)
    BY <1>1, <2>1 DEF Signing, Signed, Index
  <2>6. node[p].kind = "component" => Signed(node[p], job[p].signers)
    BY <1>1, <2>1 DEF Signing, Signed
  <2>7. \A r \in referrers : r.by = <<p, pushes[p]>> => Vouched(p, r)
    BY <1>1, <2>1 DEF Signing, Ended
  <2>8. \A r \in referrers' : r.by = <<p, pushes[p]>> => Vouched(p, r)'
    BY <2>1, <2>4, <2>7, VouchedStays
  <2> QED
    BY <2>1, <2>4, <2>5, <2>6, <2>8 DEF Signing, Signed, Index
<1>7. CASE PushIndex(p)
  <2>1. /\ pc[p] = "index" /\ At(p, "sign", {}, Index(job[p].package)) /\ referrers' = referrers
    BY <1>7 DEF PushIndex
  <2>2. Index(job[p].package).kind = "index"
    BY DEF Index
  <2>3. \A r \in referrers' \ referrers :
            (r.kind = "vex" /\ r = Index(job[p].package)) \/ r.by # <<p, pushes[p]>>
    BY <2>1
  <2>4. pc[p] \notin Ended \cup {"sign"}
    BY <2>1 DEF Ended
  <2> QED
    BY <2>1, <2>2, <2>3, <2>4, SigningBegins
<1>8. CASE AttachReports(p)
  <2>1. pc[p] = "reports" /\ job[p] \in JobType
    BY <1>8 DEF AttachReports, PushersOK
  <2>2. CASE job[p].scan = 0
    <3>1. At(p, "documents", job[p].documents, None) /\ referrers' = referrers
      BY <1>8, <2>2 DEF AttachReports, Goto
    <3> QED
      BY <2>1, <3>1, SigningGoesOn DEF Ended, Sealed
  <2>3. CASE job[p].scan # 0
    <3>1. PICK r : r = Reports(job[p].package, job[p].scan)
      OBVIOUS
    <3>2. At(p, "sign", {}, r) /\ referrers' = referrers \cup {r}
      BY <1>8, <2>3, <3>1 DEF AttachReports
    <3>3. r.kind = "reports" /\ r.by # <<p, pushes[p]>>
      BY <1>1, <3>1, NoneAssumption DEF Reports
    <3> QED
      BY <2>1, <3>2, <3>3, SigningBegins DEF Ended, Sealed
  <2> QED
    BY <2>2, <2>3
<1>9. CASE AttachDocument(p)
  <2>1. /\ pc[p] = "attach" /\ referrers' = referrers \cup {node[p]}
        /\ At(p, "sign", todo[p], node[p])
    BY <1>9 DEF AttachDocument
  <2>2. node[p].kind = "vex"
    BY <2>1 DEF PushersOK, Fits
  <2> QED
    BY <2>1, <2>2, SigningBegins DEF Ended, Sealed
<1>10. CASE Copied(p)
  <2>1. pc[p] = "copy" /\ At(p, "sign", todo[p], node[p]) /\ referrers' = referrers
    BY <1>10 DEF Copied, registry
  <2>2. node[p].kind = "component"
    BY <2>1 DEF PushersOK, Fits, PlacedType
  <2> QED
    BY <2>1, <2>2, SigningBegins DEF Ended, Sealed
<1>11. CASE ListDocuments(p)
  <2>1. PICK d \in todo[p] : \/ At(p, "documents", todo[p] \ {d}, None)
                             \/ At(p, "attach", todo[p] \ {d}, Vex(job[p].package, d, p))
    BY <1>11 DEF ListDocuments, Strike
  <2>2. pc[p] = "documents" /\ referrers' = referrers
    BY <1>11 DEF ListDocuments, registry
  <2>3. Vex(job[p].package, d, p).by = <<p, pushes[p]>>
    BY DEF Vex
  <2> QED
    BY <2>1, <2>2, <2>3, SigningGoesOn DEF Ended, Sealed
<1>12. CASE ListProvenance(p)
  <2>1. pc[p] = "provenance" /\ referrers' = referrers /\ job[p] \in JobType
    BY <1>12 DEF ListProvenance, registry, PushersOK
  <2>2. PICK left : At(p, "attest", left, None) /\ (None \in left => job[p].signers = {})
    <3>1. None \notin {} /\ None \notin job[p].signers
      BY <2>1 DEF JobType
    <3> QED
      BY <1>12, <3>1 DEF ListProvenance, Goto
  <2> QED
    BY <2>1, <2>2, SigningGoesOn DEF Ended, Sealed
<1>13. CASE Attest(p)
  <2>1. PICK g \in todo[p] :
          /\ referrers' = referrers \cup {Attestation(job[p].package, g, p)}
          /\ At(p, "attest", todo[p] \ {g}, None)
    BY <1>13 DEF Attest, Strike
  <2>2. /\ pc[p] = "attest" /\ pc'[p] = "attest" /\ todo'[p] = todo[p] \ {g}
        /\ signatures' = signatures /\ job'[p] = job[p] /\ pushes'[p] = pushes[p]
    BY <1>13, <2>1 DEF Attest, At, PushersOK
  <2>3. PICK a : a = Attestation(job[p].package, g, p)
    OBVIOUS
  <2>4. a.kind = "provenance" /\ (a.what = None => job[p].signers = {})
    BY <1>1, <2>1, <2>2, <2>3 DEF Attestation, Signing
  <2>5. Vouched(p, a)'
    BY <2>2, <2>4 DEF Vouched
  <2>6. \A r \in referrers : r.by = <<p, pushes[p]>> => Vouched(p, r)'
    BY <1>1, <2>2, VouchedStays DEF Signing, Ended
  <2> QED
    BY <1>1, <2>1, <2>2, <2>3, <2>5, <2>6 DEF Signing, Signed, Index, Sealed, Ended
<1>14. CASE PruneSignatures(p) \/ PruneReport(p) \/ PruneRefused(p)
  <2>1. \E label \in {"stale", "delete", "done"} : \E left, n : At(p, label, left, n)
    <3>1. CASE PruneSignatures(p)
      BY <3>1 DEF PruneSignatures
    <3>2. CASE PruneReport(p)
      BY <3>2 DEF PruneReport, Goto
    <3>3. CASE PruneRefused(p) /\ pc[p] = "stale"
      <4>1. PICK r \in todo[p] : At(p, "stale", todo[p] \ {r}, None)
        BY <3>3 DEF PruneRefused, Strike
      <4> QED
        BY <4>1
    <3>4. CASE PruneRefused(p) /\ pc[p] # "stale"
      BY <3>4 DEF PruneRefused, Goto
    <3> QED
      BY <1>14, <3>1, <3>2, <3>3, <3>4
  <2>2. pc[p] \in {"prune", "stale", "delete"} /\ referrers' \subseteq referrers
    BY <1>14 DEF PruneSignatures, PruneReport, PruneRefused
  <2> QED
    BY <2>1, <2>2, SigningGoesOn DEF Ended, Sealed
<1>15. CASE \/ Stops(p) \/ LayersPushed(p) \/ PushSBOM(p) \/ DocumentsAttached(p) \/ Attested(p)
            \/ TagSite(p) \/ SitesTagged(p) \/ TagPackage(p) \/ PruneList(p) \/ Pruned(p)
  <2>1. referrers' = referrers /\ pc[p] \notin Ended
    BY <1>15 DEF Stops, LayersPushed, PushSBOM, DocumentsAttached, Attested, TagSite, SitesTagged,
                 TagPackage, PruneList, Pruned, Ended, registry
  <2>2. \E label \in Labels : \E left :
           /\ At(p, label, left, None)
           /\ label \notin {"sign", "site_tag", "attach"}
           /\ pc[p] = "sign" => label \in Ended
           /\ label \in Sealed => pc[p] \in Sealed
           /\ label = "attest" => left = {}
    BY <1>15 DEF Stops, LayersPushed, PushSBOM, DocumentsAttached, Attested, TagSite, SitesTagged,
                 TagPackage, PruneList, Pruned, Ended, Goto, Sealed, Labels
  <2> QED
    BY <2>1, <2>2, SigningGoesOn
<1>16. CASE PushLayer(p) \/ PushManifest(p)
  <2>1. /\ referrers' = referrers /\ pc[p] \in {"layers", "manifests"}
        /\ \E left : At(p, pc[p], left, None)
    BY <1>16 DEF PushLayer, PushManifest, Strike
  <2> QED
    BY <2>1, SigningGoesOn DEF Ended, Sealed
<1>17. CASE EnterSite(p)
  <2>1. /\ referrers' = referrers /\ pc[p] = "sites"
        /\ \E left, n : At(p, "copy", left, n)
    BY <1>17 DEF EnterSite, registry
  <2> QED
    BY <2>1, SigningGoesOn DEF Ended, Sealed
<1> QED
  BY <1>3, <1>4, <1>5, <1>6, <1>7, <1>8, <1>9, <1>10, <1>11, <1>12, <1>13, <1>14, <1>15, <1>16,
     <1>17 DEF Push

LEMMA ReferrersInvariant == Spec => []ReferrersInv
<1> USE ConstantsAssumption
<1>1. Init => ReferrersInv
  BY DEF Init, ReferrersInv, Attributed, Pruning, Signing, Sealed, Ended
<1>2. TypeOK /\ ReferrersInv /\ [Next]_vars => ReferrersInv'
  <2> SUFFICES ASSUME RegistryOK, PushersOK, ReferrersInv, [Next]_vars
               PROVE  ReferrersInv'
    BY TypeParts
  <2>1. CASE UNCHANGED vars
    BY <2>1 DEF vars, registry, ReferrersInv, Attributed, Pruning, Superseded, Newer, Carried,
                Signing, Signed, Vouched, Index
  <2>2. ASSUME NEW p \in Pusher, Push(p)
        PROVE  ReferrersInv'
    <3>1. Attributed'
      BY <2>2, AttributedStep DEF ReferrersInv
    <3>2. Pruning'
      BY <2>2, PruningStep DEF ReferrersInv
    <3>3. \A q \in Pusher : Signing(q)'
      BY <2>2, SigningStep, SigningOfOthers
    <3> QED
      BY <3>1, <3>2, <3>3 DEF ReferrersInv
  <2> QED
    BY <2>1, <2>2 DEF Next
<1> QED
  BY <1>1, <1>2, TypeCorrect, PTL DEF Spec

\* A push moves the package's tag only once every signer of its own has signed
\* the index and each document it attached, and a site's tag only to what they
\* have signed: push calls the signing plugins before Tag, and what another
\* push deletes meanwhile is a report or the signature of one.
THEOREM TagsAreSigned == Spec => SignedBeforeTag
<1> USE ConstantsAssumption
<1>1. ASSUME RegistryOK, PushersOK, ReferrersInv, NEW p \in Pusher, Push(p),
             NEW t \in Tag, tags'[t] # tags[t]
      PROVE  /\ pc[p] = "tag"
             /\ job[p].package = tags'[t]
             /\ Signed(Index(job[p].package), job[p].signers)
             /\ \A r \in referrers : r.by = <<p, pushes[p]>> =>
                 \/ r.kind = "vex" /\ Signed(r, job[p].signers)
                 \/ r.kind = "provenance" /\ (r.what = None => job[p].signers = {})
  <2>1. /\ pc[p] = "tag"
        /\ tags' = [tags EXCEPT ![job[p].tag] = job[p].package]
    BY <1>1, WhatChanges DEF TagPackage
  <2>2. tags'[t] = job[p].package
    BY <1>1, <2>1 DEF RegistryOK
  <2>3. Signing(p)
    BY <1>1 DEF ReferrersInv
  <2> QED
    BY <2>1, <2>2, <2>3 DEF Signing, Sealed, Vouched, Ended
<1>2. ASSUME RegistryOK, PushersOK, ReferrersInv, NEW p \in Pusher, Push(p),
             NEW x \in Site, siteTags'[x] # siteTags[x]
      PROVE  pc[p] = "site_tag" /\ Signed(Placed(x, siteTags'[x]), job[p].signers)
  <2>1. /\ pc[p] = "site_tag"
        /\ siteTags' = [siteTags EXCEPT ![node[p].of] =
                          IF node[p].of \in Pinned THEN @ ELSE node[p].members]
    BY <1>2, WhatChanges DEF TagSite
  <2>2. node[p].of = x /\ siteTags'[x] = node[p].members
    BY <1>2, <2>1 DEF RegistryOK
  <2>3. node[p] = Placed(x, siteTags'[x])
    BY <1>2, <2>1, <2>2 DEF PushersOK, Fits, PlacedType, Placed
  <2> QED
    BY <1>2, <2>1, <2>3 DEF ReferrersInv, Signing
<1> DEFINE Moved ==
        /\ \A t \in Tag : tags'[t] # tags[t] =>
            \E p \in Pusher :
                /\ pc[p] = "tag"
                /\ job[p].package = tags'[t]
                /\ Signed(Index(job[p].package), job[p].signers)
                /\ \A r \in referrers : r.by = <<p, pushes[p]>> =>
                    \/ r.kind = "vex" /\ Signed(r, job[p].signers)
                    \/ r.kind = "provenance" /\ (r.what = None => job[p].signers = {})
        /\ \A x \in Site : siteTags'[x] # siteTags[x] =>
            \E p \in Pusher :
                /\ pc[p] = "site_tag"
                /\ Signed(Placed(x, siteTags'[x]), job[p].signers)
<1>3. TypeOK /\ ReferrersInv /\ [Next]_vars => [Moved]_vars
  BY <1>1, <1>2, TypeParts DEF Next
<1> QED
  BY <1>3, TypeCorrect, ReferrersInvariant, PTL DEF Spec, SignedBeforeTag

\* However many pushes list, unsign and delete reports at once, one that is
\* deleted leaves newer ones of the package there: each was superseded when
\* PruneReferrers listed it, and what supersedes it goes only for something
\* newer still.
THEOREM NewestReportsStay == Spec => NewestReportsKept
<1>1. ASSUME ReferrersInv, NEW p \in Pusher, Push(p), NEW r \in referrers \ referrers'
      PROVE  r.kind = "reports" /\ Newer(r)' # {}
  <2>1. Superseded(r)
    BY <1>1, WhatIsTaken DEF ReferrersInv
  <2>2. Superseded(r)'
    BY <1>1, <2>1, SupersededStays DEF ReferrersInv
  <2> QED
    BY <2>1, <2>2 DEF Superseded
<1> DEFINE Kept == \A r \in referrers \ referrers' : r.kind = "reports" /\ Newer(r)' # {}
<1>2. ReferrersInv /\ [Next]_vars => [Kept]_vars
  BY <1>1 DEF Next
<1> QED
  BY <1>2, ReferrersInvariant, PTL DEF Spec, NewestReportsKept

\* The steps that lead to attaching, signing and deleting.
LEMMA WhatLeadsThere ==
    ASSUME PushersOK, NEW p \in Pusher, Push(p)
    PROVE  /\ pc'[p] = "attach" => ListDocuments(p)
           /\ pc'[p] = "sign" =>
                PushIndex(p) \/ AttachReports(p) \/ AttachDocument(p) \/ Copied(p) \/ Sign(p)
           /\ pc'[p] = "delete" => PruneSignatures(p)
<1>1. CASE Start(p)
  <2>1. pc'[p] = "layers"
    BY <1>1 DEF Start, PushersOK
  <2> QED
    BY <2>1
<1>2. CASE CopyBlob(p) \/ CopyManifest(p)
  <2>1. pc'[p] = "copy"
    BY <1>2 DEF CopyBlob, CopyManifest
  <2> QED
    BY <2>1
<1>3. ASSUME NEW label, NEW left, NEW n, At(p, label, left, n)
      PROVE  label = pc'[p]
  BY <1>3 DEF At, PushersOK
<1>4. CASE SignedAll(p)
  <2>1. node[p].kind \in {"index", "reports", "vex", "component"}
    BY <1>4 DEF SignedAll, PushersOK, Fits, NodeType, Index, ReferrerType, PlacedType
  <2>2. \E label \in {"reports", "documents", "site_tag"} : \E left, n : At(p, label, left, n)
    BY <1>4, <2>1 DEF SignedAll, Goto
  <2> QED
    BY <1>3, <2>2
<1>5. CASE \/ Stops(p) \/ LayersPushed(p) \/ PushSBOM(p) \/ DocumentsAttached(p)
           \/ ListProvenance(p) \/ Attested(p) \/ TagSite(p) \/ SitesTagged(p) \/ TagPackage(p)
           \/ PruneList(p) \/ PruneReport(p) \/ Pruned(p)
  BY <1>3, <1>5 DEF Stops, LayersPushed, PushSBOM, DocumentsAttached, ListProvenance, Attested,
                    TagSite, SitesTagged, TagPackage, PruneList, PruneReport, Pruned, Goto
<1>6. CASE PushLayer(p) \/ PushManifest(p) \/ Attest(p) \/ EnterSite(p)
  BY <1>3, <1>6 DEF PushLayer, PushManifest, Attest, EnterSite, Strike
<1>7. CASE ListDocuments(p)
  BY <1>3, <1>7 DEF ListDocuments, Strike
<1>8. CASE PruneRefused(p)
  BY <1>3, <1>8 DEF PruneRefused, Strike, Goto
<1>9. CASE PruneSignatures(p)
  BY <1>3, <1>9 DEF PruneSignatures
<1>10. CASE PushIndex(p) \/ AttachReports(p) \/ AttachDocument(p) \/ Copied(p) \/ Sign(p)
  <2>1. CASE PushIndex(p) \/ AttachDocument(p) \/ Copied(p)
    BY <1>3, <2>1 DEF PushIndex, AttachDocument, Copied
  <2>2. CASE AttachReports(p)
    BY <1>3, <2>2 DEF AttachReports, Goto
  <2>3. CASE Sign(p)
    BY <2>3 DEF Sign
  <2> QED
    BY <1>10, <2>1, <2>2, <2>3
<1> QED
  BY <1>1, <1>2, <1>4, <1>5, <1>6, <1>7, <1>8, <1>9, <1>10 DEF Push

LEMMA IdleStep ==
    ASSUME PushersOK, Idle, NEW p \in Pusher, Push(p)
    PROVE  Idle' /\ pushes'[p] # 0
<1>1. pushes'[p] # 0
  <2>1. CASE Start(p)
    BY <2>1, ConstantsAssumption DEF Start, PushersOK
  <2>2. CASE ~Start(p)
    BY <2>2, PushLocal DEF Idle, Ended
  <2> QED
    BY <2>1, <2>2
<1>2. \A q \in Pusher : q # p => pc'[q] = pc[q] /\ pushes'[q] = pushes[q]
  BY PushLocal
<1> QED
  BY <1>1, <1>2 DEF Idle

LEMMA LoneStep ==
    ASSUME RegistryOK, PushersOK, ReferrersInv, Idle, LoneInv, NEW p \in Pusher, Push(p)
    PROVE  LoneInv'
<1> USE ConstantsAssumption
<1> SUFFICES ASSUME OnePusher'
             PROVE  /\ DocumentsOnce' /\ SignaturesAnchored'
                    /\ \A q \in Pusher :
                          /\ (pc[q] = "attach" =>
                                \A r \in Carried(node[q].of, "vex") : r.what # node[q].what)'
                          /\ (pc[q] = "sign" /\ node[q].kind = "reports" => node[q] \in referrers)'
                          /\ (pc[q] = "delete" => SignaturesOf(node[q]) = {})'
  BY DEF LoneInv
<1>1. \A q \in Pusher : q # p => pushes'[q] = 0 /\ pushes[q] = 0
  <2>1. pushes'[p] # 0
    BY IdleStep
  <2>2. \A q \in Pusher : q # p => pushes'[q] = 0
    BY <2>1 DEF OnePusher
  <2> QED
    BY <2>2, PushLocal
<1>2. \A q \in Pusher : q # p => pc'[q] = "ready"
  BY <1>1, PushLocal DEF Idle
<1>3. OnePusher
  BY <1>1 DEF OnePusher
<1>4. /\ \A r \in referrers, q \in referrers :
            r.kind = "vex" /\ q.kind = "vex" /\ r.of = q.of /\ r.what = q.what => r = q
      /\ \A g \in signatures : g.of.kind = "reports" => g.of \in referrers
  BY <1>3 DEF LoneInv, DocumentsOnce, SignaturesAnchored
<1>5. /\ pc[p] = "attach" => \A r \in Carried(node[p].of, "vex") : r.what # node[p].what
      /\ pc[p] = "sign" /\ node[p].kind = "reports" => node[p] \in referrers
      /\ pc[p] = "delete" => SignaturesOf(node[p]) = {}
  BY <1>3 DEF LoneInv
<1>6. DocumentsOnce'
  <2>1. ASSUME NEW r \in referrers', r.kind = "vex", r \notin referrers
        PROVE  /\ r = node[p]
               /\ \A q \in referrers : q.kind = "vex" /\ q.of = r.of => q.what # r.what
    <3>1. AttachDocument(p) /\ r = node[p]
      BY <2>1, WhatIsAttached
    <3>2. pc[p] = "attach"
      BY <3>1 DEF AttachDocument
    <3> QED
      BY <1>5, <3>1, <3>2 DEF Carried
  <2> QED
    BY <1>4, <2>1 DEF DocumentsOnce
<1>7. SignaturesAnchored'
  <2>1. ASSUME NEW g \in signatures', g.of.kind = "reports"
        PROVE  g.of \in referrers'
    <3>1. CASE g \in signatures
      <4>1. g.of \in referrers
        BY <1>4, <2>1, <3>1
      <4>2. CASE g.of \notin referrers'
        <5>1. PruneReport(p) /\ g.of = node[p]
          BY <4>1, <4>2, WhatIsTaken DEF ReferrersInv
        <5>2. pc[p] = "delete"
          BY <5>1 DEF PruneReport
        <5> QED
          BY <1>5, <3>1, <5>1, <5>2 DEF SignaturesOf
      <4> QED
        BY <4>2
    <3>2. CASE g \notin signatures
      <4>1. Sign(p)
        BY <2>1, <3>2, WhatChanges DEF PruneSignatures, PruneRefused
      <4>2. g.of = node[p] /\ pc[p] = "sign" /\ referrers' = referrers
        BY <3>2, <4>1 DEF Sign
      <4> QED
        BY <1>5, <2>1, <4>2
    <3> QED
      BY <3>1, <3>2
  <2> QED
    BY <2>1 DEF SignaturesAnchored
<1>8. (pc[p] = "attach" => \A r \in Carried(node[p].of, "vex") : r.what # node[p].what)'
  <2> SUFFICES ASSUME pc'[p] = "attach"
               PROVE  \A r \in referrers' : r.kind = "vex" /\ r.of = node'[p].of =>
                                                r.what # node'[p].what
    BY DEF Carried
  <2>1. ListDocuments(p)
    BY WhatLeadsThere
  <2>2. PICK d \in todo[p] :
          IF \E r \in Carried(job[p].package, "vex") : r.what = d
            THEN At(p, pc[p], todo[p] \ {d}, None)
            ELSE At(p, "attach", todo[p] \ {d}, Vex(job[p].package, d, p))
    BY <2>1 DEF ListDocuments, Strike
  <2>3. pc[p] = "documents" /\ referrers' = referrers
    BY <2>1 DEF ListDocuments, registry
  <2>4. /\ \A r \in Carried(job[p].package, "vex") : r.what # d
        /\ node'[p] = Vex(job[p].package, d, p)
    BY <2>2, <2>3 DEF At, PushersOK
  <2> QED
    BY <2>3, <2>4 DEF Carried, Vex
<1>9. (pc[p] = "sign" /\ node[p].kind = "reports" => node[p] \in referrers)'
  <2> SUFFICES ASSUME pc'[p] = "sign", node'[p].kind = "reports"
               PROVE  node'[p] \in referrers'
    OBVIOUS
  <2>1. CASE PushIndex(p)
    <3>1. node'[p] = Index(job[p].package)
      BY <2>1 DEF PushIndex, At, PushersOK
    <3> QED
      BY <3>1 DEF Index
  <2>2. CASE AttachReports(p)
    <3>1. job[p].scan # 0
      BY <2>2 DEF AttachReports, Goto, At, PushersOK
    <3> QED
      BY <2>2, <3>1 DEF AttachReports, At, PushersOK
  <2>3. CASE AttachDocument(p)
    BY <2>3 DEF AttachDocument, At, PushersOK
  <2>4. CASE Copied(p)
    <3>1. node'[p] = node[p] /\ pc[p] = "copy"
      BY <2>4 DEF Copied, At, PushersOK
    <3>2. node[p].kind = "component"
      BY <3>1 DEF PushersOK, Fits, PlacedType
    <3> QED
      BY <3>1, <3>2
  <2>5. CASE Sign(p)
    BY <1>5, <2>5 DEF Sign
  <2> QED
    BY <2>1, <2>2, <2>3, <2>4, <2>5, WhatLeadsThere
<1>10. (pc[p] = "delete" => SignaturesOf(node[p]) = {})'
  <2> SUFFICES ASSUME pc'[p] = "delete"
               PROVE  \A g \in signatures' : g.of # node'[p]
    BY DEF SignaturesOf
  <2>1. PruneSignatures(p)
    BY WhatLeadsThere
  <2>2. PICK r \in todo[p] :
          /\ signatures' = signatures \ SignaturesOf(r)
          /\ At(p, "delete", todo[p] \ {r}, r)
    BY <2>1 DEF PruneSignatures
  <2>3. node'[p] = r
    BY <2>2 DEF At, PushersOK
  <2> QED
    BY <2>2, <2>3 DEF SignaturesOf
<1> QED
  BY <1>2, <1>6, <1>7, <1>8, <1>9, <1>10

LEMMA LoneInvariant == Spec => [](Idle /\ LoneInv)
<1> USE ConstantsAssumption
<1>1. Init => Idle /\ LoneInv
  BY DEF Init, Idle, LoneInv, DocumentsOnce, SignaturesAnchored
<1>2. TypeOK /\ ReferrersInv /\ (Idle /\ LoneInv) /\ [Next]_vars => (Idle /\ LoneInv)'
  <2> SUFFICES ASSUME RegistryOK, PushersOK, ReferrersInv, Idle, LoneInv, [Next]_vars
               PROVE  Idle' /\ LoneInv'
    BY TypeParts
  <2>1. CASE UNCHANGED vars
    BY <2>1 DEF vars, registry, Idle, LoneInv, OnePusher, DocumentsOnce, SignaturesAnchored,
                Carried, SignaturesOf
  <2> QED
    BY <2>1, IdleStep, LoneStep DEF Next
<1> QED
  BY <1>1, <1>2, TypeCorrect, ReferrersInvariant, PTL DEF Spec

\* Attach lists a package's referrers before it attaches a document and leaves
\* one that is carried as it is: while a single pusher pushes, however often its
\* pushes stop and are run again, no document is carried twice.
THEOREM DocumentsAreOnce == Spec => []DocumentsOnce
<1>1. LoneInv => DocumentsOnce
  BY DEF LoneInv, DocumentsOnce
<1> QED
  BY <1>1, LoneInvariant, PTL

\* PruneReferrers deletes a report's signatures before the report, and leaves the
\* report when one of them stays: while a single pusher pushes, no signature of a
\* report outlives it, wherever its pushes and prunings stop.
THEOREM SignaturesAreAnchored == Spec => []SignaturesAnchored
<1>1. LoneInv => SignaturesAnchored
  BY DEF LoneInv, SignaturesAnchored
<1> QED
  BY <1>1, LoneInvariant, PTL
=============================================================================
