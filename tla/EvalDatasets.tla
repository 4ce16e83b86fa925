---------------------------- MODULE EvalDatasets ----------------------------
(***************************************************************************)
(* One evaluation dataset and its versions.  Every write holds the tenant  *)
(* row for sharing and the dataset row, so it is one step; what its caller *)
(* knows comes from two reads, the list with its revisions and the cases   *)
(* of a version, which nothing holds together.                             *)
(***************************************************************************)
EXTENDS TenantOrganisation, Sequences

CONSTANTS Content,      \* case sets, told apart by their digest
          MaxVersion, MaxImport

ASSUME DatasetAssumption == MaxVersion \in Nat \ {0} /\ MaxImport \in Nat

VARIABLES dataset,  \* eval_datasets
          draft,    \* eval_dataset_versions with their eval_cases, in order
          sealed,   \* the digest under which each version was published
          known,    \* what each member was last shown of the list
          text      \* and of the cases of a version

datasets == <<dataset, draft, sealed, known, text>>

NoCases == "no cases"
Versions == 1 .. Len(draft)

DatasetsType ==
    /\ dataset \in [state : {"none", "active", "retired"},
                    owner : SUBSET Member, rev : Nat, current : 0 .. MaxVersion]
    /\ Len(draft) <= MaxVersion
    /\ \A v \in Versions :
          draft[v] \in [state : {"draft", "published"}, rev : 1 .. MaxImport + 2,
                        parent : 0 .. MaxVersion,
                        cases : Content \cup {NoCases}]
    /\ DOMAIN sealed = Versions
    /\ \A v \in Versions : sealed[v] \in Content \cup {NoCases}
    /\ known \in [Member -> [rev : Nat, version : 0 .. MaxVersion,
                             vrev : 0 .. MaxImport + 2, epoch : 0 .. MaxEpoch]]
    /\ text \in [Member -> [version : 0 .. MaxVersion,
                            cases : Content \cup {NoCases}]]

DatasetsInit ==
    /\ dataset = [state |-> "none", owner |-> {}, rev |-> 0, current |-> 0]
    /\ draft = <<>> /\ sealed = <<>>
    /\ known = [m \in Member |-> [rev |-> 0, version |-> 0, vrev |-> 0,
                                  epoch |-> 0]]
    /\ text = [m \in Member |-> [version |-> 0, cases |-> NoCases]]

-----------------------------------------------------------------------------
Readable(m) == \E o \in dataset.owner : MayRead(m, o)
Writable(m) == \E o \in dataset.owner : MayWrite(m, o)

NewVersion(parent) == [state |-> "draft", rev |-> 1, parent |-> parent,
                       cases |-> NoCases]

\* What the answer to a write tells its caller.
Learned(m, rev, v, vrev) == [known EXCEPT ![m] =
    [rev |-> rev, version |-> v, vrev |-> vrev, epoch |-> epoch]]

CreateDataset(m) ==
    /\ dataset.state = "none"
    /\ MayWrite(m, m)
    /\ dataset' = [state |-> "active", owner |-> {m}, rev |-> 1, current |-> 0]
    /\ draft' = <<NewVersion(0)>> /\ sealed' = <<NoCases>>
    /\ known' = [known EXCEPT ![m] = [rev |-> 1, version |-> 1, vrev |-> 1,
                                      epoch |-> 0]]
    /\ UNCHANGED text

\* The list shows the latest version.
ListDatasets(m) ==
    /\ Readable(m)
    /\ \A o \in dataset.owner : Active(o)
    /\ known' = Learned(m, dataset.rev, Len(draft), draft[Len(draft)].rev)
    /\ UNCHANGED <<dataset, draft, sealed, text>>

ReadCases(m) == \E v \in Versions :
    /\ Readable(m)
    /\ text' = [text EXCEPT ![m] = [version |-> v, cases |-> draft[v].cases]]
    /\ UNCHANGED <<dataset, draft, sealed, known>>

\* The next draft, whose parent is the published version.
CreateDraft(m) ==
    /\ Writable(m)
    /\ Len(draft) < MaxVersion
    /\ dataset.state = "active" /\ dataset.rev = known[m].rev
    /\ \A v \in Versions : draft[v].state # "draft"
    /\ draft' = Append(draft, NewVersion(dataset.current))
    /\ sealed' = Append(sealed, NoCases)
    /\ dataset' = [dataset EXCEPT !.rev = @ + 1]
    /\ known' = [known EXCEPT ![m].rev = dataset.rev + 1,
                              ![m].version = Len(draft) + 1, ![m].vrev = 1]
    /\ UNCHANGED text

\* All cases of a draft are replaced, also under a dataset that is retired.
ReplaceCases(m) == \E v \in Versions, c \in Content :
    /\ Writable(m)
    /\ draft[v].state = "draft"
    /\ known[m].version = v /\ known[m].vrev = draft[v].rev
    /\ draft[v].rev <= MaxImport
    /\ draft' = [draft EXCEPT ![v].cases = c, ![v].rev = @ + 1]
    /\ known' = [known EXCEPT ![m].vrev = draft[v].rev + 1]
    /\ text' = [text EXCEPT ![m] = [version |-> v, cases |-> c]]
    /\ UNCHANGED <<dataset, sealed>>

\* The three fences of a publication: policy, revision and digest.
DraftSeen(m, v) ==
    /\ known[m].version = v /\ known[m].epoch = epoch
    /\ known[m].vrev = draft[v].rev
    /\ text[m].version = v /\ text[m].cases = draft[v].cases

PublishVersion(m) == \E v \in Versions :
    /\ Writable(m)
    /\ dataset.state = "active" /\ draft[v].state = "draft"
    /\ DraftSeen(m, v)
    /\ draft[v].cases # NoCases
    /\ draft' = [draft EXCEPT ![v].state = "published", ![v].rev = @ + 1]
    /\ sealed' = [sealed EXCEPT ![v] = draft[v].cases]
    /\ dataset' = [dataset EXCEPT !.current = v, !.rev = @ + 1]
    /\ known' = Learned(m, dataset.rev + 1, v, draft[v].rev + 1)
    /\ UNCHANGED text

RetireDataset(m) ==
    /\ Writable(m)
    /\ dataset.state = "active" /\ dataset.rev = known[m].rev
    /\ known[m].epoch = epoch
    /\ \A v \in Versions : draft[v].state # "draft"
    /\ dataset' = [dataset EXCEPT !.state = "retired", !.rev = @ + 1]
    /\ known' = [known EXCEPT ![m].rev = dataset.rev + 1]
    /\ UNCHANGED <<draft, sealed, text>>

DatasetsNext == \E m \in Member :
    \/ CreateDataset(m) \/ ListDatasets(m) \/ ReadCases(m) \/ CreateDraft(m)
    \/ ReplaceCases(m) \/ PublishVersion(m) \/ RetireDataset(m)
=============================================================================
