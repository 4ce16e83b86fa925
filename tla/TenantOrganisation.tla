------------------------- MODULE TenantOrganisation -------------------------
(***************************************************************************)
(* Who may act in a tenant.  A structure says which members are active,    *)
(* which of them edit, and who stands above whom; architects replace it    *)
(* under the versions they have looked at.  Legal holds and retention      *)
(* policies advance the policy epoch too.                                  *)
(***************************************************************************)
EXTENDS Integers, FiniteSets

CONSTANTS Member, Architect,
          Structure,   \* the structures that occur in an instance
          MaxEpoch

ASSUME StructureAssumption ==
    /\ MaxEpoch \in Nat \ {0}
    /\ \A s \in Structure :
          /\ s.active \subseteq Member /\ s.editor \subseteq s.active
          /\ s.over \subseteq s.active \X s.active
          /\ \A m \in Member : <<m, m>> \notin s.over

VARIABLES org,      \* memberships and positions
          version,  \* org_tenants.architecture_version
          epoch,    \* org_tenants.policy_epoch
          looked    \* what each architect was last shown

organisation == <<org, version, epoch, looked>>

OrganisationType ==
    /\ org \in Structure
    /\ version \in 1 .. MaxEpoch /\ epoch \in 1 .. MaxEpoch
    /\ looked \in [Architect -> [org : Structure, version : 0 .. MaxEpoch,
                                 epoch : 0 .. MaxEpoch]]

OrganisationInit ==
    /\ org \in Structure /\ version = 1 /\ epoch = 1
    /\ looked = [a \in Architect |-> [org |-> org, version |-> 0, epoch |-> 0]]

-----------------------------------------------------------------------------
Active(m) == m \in org.active

\* A strict ancestor that may monitor, of a member that is not protected.
CanMonitor(viewer, target) == <<viewer, target>> \in org.over

MayRead(m, owner) == Active(m) /\ (m = owner \/ CanMonitor(m, owner))
MayWrite(m, owner) == m \in org.editor /\ (m = owner \/ CanMonitor(m, owner))

\* What a structure says of one member.
Place(s, m) == <<m \in s.active, m \in s.editor,
                 {x \in s.over : m \in {x[1], x[2]}}>>

-----------------------------------------------------------------------------
ViewTopology(a) ==
    /\ looked' = [looked EXCEPT ![a] = [org |-> org, version |-> version,
                                        epoch |-> epoch]]
    /\ UNCHANGED <<org, version, epoch>>

Restructured(new) ==
    /\ epoch < MaxEpoch
    /\ org' = new /\ version' = version + 1 /\ epoch' = epoch + 1
    /\ UNCHANGED looked

\* One membership changes; a change without effect is refused.
UpdateMember(a) == \E new \in Structure : \E m \in Member :
    /\ looked[a].version = version /\ looked[a].epoch = epoch
    /\ Place(new, m) # Place(org, m)
    /\ \A o \in Member \ {m} : o \in new.active <=> o \in org.active
    /\ Restructured(new)

\* The whole tree is replaced; the policy epoch is not asked for.
ReplaceTopology(a) == \E new \in Structure :
    /\ looked[a].version = version
    /\ Restructured(new)

\* A legal hold or a retention policy.
PolicyChanges ==
    /\ epoch < MaxEpoch /\ epoch' = epoch + 1
    /\ UNCHANGED <<org, version, looked>>

OrganisationNext ==
    \/ \E a \in Architect : ViewTopology(a) \/ UpdateMember(a)
                              \/ ReplaceTopology(a)
    \/ PolicyChanges
=============================================================================
