---------------------------- MODULE AccessTickets ----------------------------
(***************************************************************************)
(* Tickets for what an answer cites and for the tables it exports.  A      *)
(* member has one preview ticket, which a newer one replaces; a citation   *)
(* and a ticket go with their chunk.  A download spends its ticket in the  *)
(* database and reads the file afterwards.                                 *)
(***************************************************************************)
EXTENDS TenantOrganisation, Sequences

CONSTANTS Chunk, Sum,    \* chunks of documents, digests of an exported file
          MaxTicket

ASSUME TicketAssumption == MaxTicket \in Nat

VARIABLES stored, served,  \* chunks, and those of the served editions
          reference,       \* evidence_references
          preview,         \* evidence_preview_tickets, one row for a member
          issued,          \* what each preview token was issued for
          shown,           \* passages that were returned
          file,            \* the exported file
          export,          \* its table_exports row
          ticket,          \* table_export_tickets
          fetching,        \* downloads between their commit and the file
          sent             \* bytes that were returned

tickets == <<stored, served, reference, preview, issued, shown, file, export,
             ticket, fetching, sent>>

NoPreview == [token |-> 0, chunk |-> {}, live |-> FALSE, used |-> FALSE]
NoExport == [actor |-> {}, sum |-> {}, live |-> FALSE]
NoFile == "no file"
Tokens == 1 .. Len(issued)
Downloads == 1 .. Len(ticket)

TicketsType ==
    /\ served \subseteq stored /\ stored \subseteq Chunk
    /\ reference \subseteq stored
    /\ preview \in [Member -> [token : 0 .. MaxTicket, chunk : SUBSET stored,
                               live : BOOLEAN, used : BOOLEAN]]
    /\ \A t \in Tokens : issued[t] \in [actor : Member, chunk : Chunk]
    /\ \A i \in DOMAIN shown :
          shown[i] \in [token : Tokens, actor : Member, chunk : Chunk]
    /\ file \in Sum \cup {NoFile}
    /\ export \in [actor : SUBSET Member, sum : SUBSET Sum, live : BOOLEAN]
    /\ \A t \in Downloads :
          ticket[t] \in [actor : Member, live : BOOLEAN, used : BOOLEAN]
    /\ fetching \subseteq [ticket : Downloads, sum : Sum]
    /\ \A i \in DOMAIN sent :
          sent[i] \in [ticket : Downloads, sum : Sum, due : Sum]

TicketsInit ==
    /\ stored = Chunk /\ served = Chunk /\ reference = {}
    /\ preview = [m \in Member |-> NoPreview]
    /\ issued = <<>> /\ shown = <<>>
    /\ file = NoFile /\ export = NoExport /\ ticket = <<>>
    /\ fetching = {} /\ sent = <<>>

-----------------------------------------------------------------------------
(* Evidence.                                                               *)

evidence == <<stored, served, reference, preview, issued, shown>>
exports == <<file, export, ticket, fetching, sent>>

\* Promotion, activation, archive and restore change which chunks are served.
ServeOthers == \E now \in SUBSET stored :
    /\ now # served /\ served' = now
    /\ UNCHANGED <<stored, reference, preview, issued, shown, exports>>

\* A swept chunk takes its citation and its tickets with it.
Sweep == \E c \in stored \ served :
    /\ stored' = stored \ {c} /\ reference' = reference \ {c}
    /\ preview' = [m \in Member |-> IF preview[m].chunk = {c} THEN NoPreview
                                    ELSE preview[m]]
    /\ UNCHANGED <<served, issued, shown, exports>>

\* A checked answer registers what it cites, if all of it is served still.
RegisterReferences == \E cited \in SUBSET Chunk :
    /\ cited # {} /\ cited \subseteq served
    /\ reference' = reference \cup cited
    /\ UNCHANGED <<stored, served, preview, issued, shown, exports>>

MintPreview(m) == \E c \in reference \cap served :
    /\ Active(m)
    /\ Len(issued) < MaxTicket
    /\ issued' = Append(issued, [actor |-> m, chunk |-> c])
    /\ preview' = [preview EXCEPT ![m] =
          [token |-> Len(issued) + 1, chunk |-> {c}, live |-> TRUE,
           used |-> FALSE]]
    /\ UNCHANGED <<stored, served, reference, shown, exports>>

HoldsTicket(m, token) ==
    /\ preview[m].token = token
    /\ preview[m].live /\ ~preview[m].used

ConsumePreview(m) == \E token \in Tokens : \E c \in preview[m].chunk :
    /\ HoldsTicket(m, token)
    /\ Active(m) /\ c \in served
    /\ preview' = [preview EXCEPT ![m].used = TRUE]
    /\ shown' = Append(shown, [token |-> token, actor |-> m, chunk |-> c])
    /\ UNCHANGED <<stored, served, reference, issued, exports>>

PreviewExpires(m) ==
    /\ preview[m].live
    /\ preview' = [preview EXCEPT ![m].live = FALSE]
    /\ UNCHANGED <<stored, served, reference, issued, shown, exports>>

-----------------------------------------------------------------------------
(* Exported tables.                                                        *)

\* A generated file is measured and bound to the member it was made for.
RegisterExport(m) == \E s \in Sum :
    /\ Active(m)
    /\ export.actor \subseteq {m}
    /\ file' = s
    /\ export' = [actor |-> {m}, sum |-> {s}, live |-> TRUE]
    /\ UNCHANGED <<evidence, ticket, fetching, sent>>

\* Nothing in the repository rewrites or removes an exported file; whoever
\* keeps the directory may.
FileChanges == \E s \in Sum \cup {NoFile} :
    /\ s # file /\ file # NoFile
    /\ file' = s
    /\ UNCHANGED <<evidence, export, ticket, fetching, sent>>

ExportExpires ==
    /\ export.live /\ export' = [export EXCEPT !.live = FALSE]
    /\ UNCHANGED <<evidence, file, ticket, fetching, sent>>

MintDownload(m) ==
    /\ Active(m) /\ m \in export.actor /\ export.live
    /\ Len(ticket) < MaxTicket
    /\ ticket' = Append(ticket, [actor |-> m, live |-> TRUE, used |-> FALSE])
    /\ UNCHANGED <<evidence, file, export, fetching, sent>>

TicketExpires(t) ==
    /\ ticket[t].live /\ ticket' = [ticket EXCEPT ![t].live = FALSE]
    /\ UNCHANGED <<evidence, file, export, fetching, sent>>

\* The ticket is spent and the measurement read in one statement.
ConsumeDownload(m, t) == \E s \in export.sum :
    /\ Active(m) /\ m \in export.actor /\ export.live
    /\ ticket[t].actor = m /\ ticket[t].live /\ ~ticket[t].used
    /\ ticket' = [ticket EXCEPT ![t].used = TRUE]
    /\ fetching' = fetching \cup {[ticket |-> t, sum |-> s]}
    /\ UNCHANGED <<evidence, file, export, sent>>

\* The file is read and measured again; the ticket stays spent if it differs.
SendMeasured(f) ==
    /\ fetching' = fetching \ {f}
    /\ sent' = IF file = f.sum
               THEN Append(sent, [ticket |-> f.ticket, sum |-> file,
                                  due |-> f.sum])
               ELSE sent
    /\ UNCHANGED <<evidence, file, export, ticket>>

EvidenceNext ==
    \/ \E m \in Member : \/ MintPreview(m) \/ ConsumePreview(m)
                         \/ PreviewExpires(m)
    \/ ServeOthers \/ Sweep \/ RegisterReferences

ExportsNext ==
    \/ \E m \in Member : RegisterExport(m) \/ MintDownload(m)
    \/ \E m \in Member, t \in Downloads : ConsumeDownload(m, t)
    \/ \E t \in Downloads : TicketExpires(t)
    \/ \E f \in fetching : SendMeasured(f)
    \/ FileChanges \/ ExportExpires
=============================================================================
