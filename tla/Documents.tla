------------------------------ MODULE Documents ------------------------------
(***************************************************************************)
(* The document commands (documents.py, cli.py _documents): each command   *)
(* is a process that resolves its paths, asks the policy gateway, writes   *)
(* the audit record and only then works in the documents directory that    *)
(* all of them share.  A conversion is done by LibreOffice, which names    *)
(* its result after the source's stem; the command then moves it to the    *)
(* output that was asked for.  Only the output directory and one output    *)
(* format are modelled: a file is named by its stem.                       *)
(***************************************************************************)
EXTENDS Naturals

CONSTANTS Jobs,         \* commands that may run at the same time
          Sources,      \* source documents
          Stems,        \* file names in the output directory
          StemOf,       \* the stem of each source
          None, Torn,
          MaxEdits      \* how often sources are edited

VARIABLES edition,   \* per source: how often it was edited
          files,     \* output directory: what each file was made from
          job

vars == <<edition, files, job>>
fileVars == <<edition, files>>

Made(source, e) == [of |-> source, edition |-> e]
TextOnly == "text"        \* create-pdf: the text given on the command line

Idle == [pc |-> "idle", op |-> "none", source |-> None, output |-> None,
         since |-> 0, alone |-> FALSE, produced |-> FALSE]

Init ==
    /\ edition = [s \in Sources |-> 0]
    /\ files = [f \in Stems |-> None]
    /\ job = [j \in Jobs |-> Idle]

At(j, pc) == job[j].pc = pc
Go(j, pc) == job' = [job EXCEPT ![j].pc = pc]
Ended(j) == job[j].pc \in {"idle", "reported"}
(* An error or a kill ends the command.                                     *)
Fail(j) == job' = [job EXCEPT ![j] = Idle]

-----------------------------------------------------------------------------
(* _require_documents_profile, _resolve_document_path, and the checks of    *)
(* the type and the output's extension: a command that fails them ends      *)
(* before it asks for anything.                                             *)
Resolves(op, source, output) ==
    /\ op = "create" <=> source = None
    /\ op = "inspect" => output = None
    /\ op \in {"create", "convert"} => output # None

Begin(j, op, source, output) ==
    /\ At(j, "idle") /\ Resolves(op, source, output)
    /\ LET lone == \A k \in Jobs \ {j} : Ended(k)
       IN job' = [k \in Jobs |->
              IF k = j THEN [pc |-> "authorize", op |-> op, source |-> source, output |-> output,
                             since |-> IF source = None THEN 0 ELSE edition[source],
                             alone |-> lone, produced |-> FALSE]
              ELSE [job[k] EXCEPT !.alone = FALSE]]
    /\ UNCHANGED fileVars

(* _authorize_document_action: an allow record in the audit log, then the   *)
(* work; a denial, or a record that cannot be written, ends the command     *)
(* (the gateway and the sink are those of LocalAPI).                        *)
AuthorizeAction(j) ==
    /\ At(j, "authorize")
    /\ \/ Go(j, job[j].op)
       \/ Fail(j)
    /\ UNCHANGED fileVars

(* inspect_document; extract_pdf_text without an output, which reads the    *)
(* source.                                                                  *)
Inspect(j) ==
    /\ job[j].pc \in {"inspect", "extract"} /\ job[j].output = None
    /\ Go(j, "reported")
    /\ UNCHANGED fileVars

(* extract_pdf_text with an output and create_pdf write in place, if their  *)
(* library is installed.                                                    *)
WriteOutput(j) ==
    /\ job[j].pc \in {"extract", "create"} /\ job[j].output # None
    /\ \/ files' = [files EXCEPT ![job[j].output] = Torn] /\ Go(j, "writing")
       \/ Fail(j) /\ UNCHANGED files
    /\ UNCHANGED edition

WriteFinish(j) ==
    /\ At(j, "writing")
    /\ files' = [files EXCEPT ![job[j].output] =
                    IF job[j].op = "create" THEN Made(TextOnly, 0)
                    ELSE Made(job[j].source, edition[job[j].source])]
    /\ Go(j, "reported")
    /\ UNCHANGED edition

-----------------------------------------------------------------------------
(* convert_document: soffice --convert-to writes <stem of the source> into  *)
(* the output's directory.  It may not be installed, fail, run into the     *)
(* timeout or leave a partial file, and it may exit 0 without a file.       *)
Generated(j) == StemOf[job[j].source]

Soffice(j) ==
    /\ At(j, "convert")
    /\ \/ Fail(j) /\ UNCHANGED files
       \/ Go(j, "converting") /\ files' = [files EXCEPT ![Generated(j)] = Torn]
       \/ Go(j, "move") /\ UNCHANGED files
    /\ UNCHANGED edition

SofficeFinish(j) ==
    /\ At(j, "converting")
    /\ \/ /\ files' = [files EXCEPT ![Generated(j)] =
                          Made(job[j].source, edition[job[j].source])]
          /\ job' = [job EXCEPT ![j].pc = "move", ![j].produced = TRUE]
       \/ Fail(j) /\ UNCHANGED files
    /\ UNCHANGED edition

(* The result is only moved to a name that is free.                         *)
MoveIfFree(j) ==
    /\ At(j, "move")
    /\ LET output == job[j].output
       IN /\ files' = IF Generated(j) # output /\ files[output] = None
                      THEN [files EXCEPT ![output] = files[Generated(j)], ![Generated(j)] = None]
                      ELSE files
          /\ IF files'[output] = None THEN Fail(j) ELSE Go(j, "reported")
    /\ UNCHANGED edition

(* generated.replace(output_path) if there is a generated file, whoever     *)
(* made it; then any file at the output counts as converted.                *)
Move(j) ==
    /\ At(j, "move")
    /\ LET output == job[j].output
       IN /\ files' = IF Generated(j) # output /\ files[Generated(j)] # None
                      THEN [files EXCEPT ![output] = files[Generated(j)], ![Generated(j)] = None]
                      ELSE files
          /\ IF files'[output] = None THEN Fail(j) ELSE Go(j, "reported")
    /\ UNCHANGED edition

(* A command is killed, or its report was read.                             *)
End(j) ==
    /\ ~At(j, "idle") /\ Fail(j)
    /\ UNCHANGED fileVars

(* The user edits a source.                                                 *)
EditSource(s) ==
    /\ \A t \in Sources : edition[t] < MaxEdits
    /\ edition' = [edition EXCEPT ![s] = @ + 1]
    /\ UNCHANGED <<files, job>>

Next ==
    \/ \E j \in Jobs :
          \/ \E op \in {"inspect", "extract", "create", "convert"}, source \in Sources \cup {None},
                output \in Stems \cup {None} : Begin(j, op, source, output)
          \/ AuthorizeAction(j) \/ Inspect(j) \/ WriteOutput(j) \/ WriteFinish(j)
          \/ Soffice(j) \/ SofficeFinish(j) \/ Move(j) \/ End(j)
    \/ \E s \in Sources : EditSource(s)

Spec == Init /\ [][Next]_vars

-----------------------------------------------------------------------------
TypeOK ==
    /\ edition \in [Sources -> 0..MaxEdits]
    /\ \A f \in Stems : files[f] \in {None, Torn} \cup
          [of : Sources \cup {TextOnly}, edition : 0..MaxEdits]

(* A conversion that ran by itself, and for which LibreOffice produced a    *)
(* file, reports success only with its own source, no older than when the   *)
(* command began, at the output that was asked for, although files of       *)
(* earlier commands, whole or partial, lie under both names                 *)
(* (convert_document).                                                      *)
ConvertedIsOwn ==
    \A j \in Jobs :
        At(j, "reported") /\ job[j].op = "convert" /\ job[j].alone /\ job[j].produced =>
            /\ files[job[j].output] \notin {None, Torn}
            /\ files[job[j].output].of = job[j].source
            /\ files[job[j].output].edition >= job[j].since

=============================================================================
