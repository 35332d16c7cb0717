---------------------------- MODULE MCOrchestrator ----------------------------
(* Small instances of Orchestrator for TLC.                                    *)
EXTENDS Orchestrator, Sequences, TLC

CONSTANTS r1, r2

Kind(outputs, place, engine, valid, refusal) ==
    [outputs |-> outputs, place |-> place, engine |-> engine,
     supported |-> {"pdf", "html", "xlsx"}, valid |-> valid, refusal |-> refusal]

(* Two formats, one of them asked for twice.                                   *)
Invoice(place) == Kind(<<"pdf", "html", "pdf">>, place, "jinja-html", TRUE, "none")

(* One request of each class, each with a key prefix of its own.               *)
EveryKind ==
    {Invoice("invoices"),
     Kind(<<"pdf">>, "forms", "pdf-form", TRUE, "none"),
     Kind(<<"pdf">>, "broken", "pdf-form", TRUE, "TEMPLATE_NOT_FOUND"),
     Kind(<<"html", "xlsx">>, "mixed", "jinja-html", TRUE, "none"),
     Kind(<<"docx">>, "letters", "docx", TRUE, "none"),
     Kind(<<"xlsx">>, "tables", "xlsx", FALSE, "none"),
     Kind(<<"pdf">>, "missing", "none", TRUE, "none")}

===============================================================================
