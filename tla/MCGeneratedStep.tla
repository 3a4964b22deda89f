--------------------------- MODULE MCGeneratedStep ---------------------------
(* Instances of GeneratedStep: which programs are considered.  One that    *)
(* takes a PARM can also start, so all of them take one.                   *)
EXTENDS GeneratedStep

Checks == {"bounds", "step"}

(* The failures the statements of a place can meet, place by place. *)
Can(body, function, procedure, handler, declarative) ==
    [place \in Places \union {"declarative"} |->
        CASE place = "body"        -> body
          [] place = "function"    -> function
          [] place = "procedure"   -> procedure
          [] place = "handler"     -> handler
          [] place = "declarative" -> declarative]

Shape(can, calls, sorts) ==
    { [can |-> can, calls |-> calls, sorts |-> sorts,
       posts |-> posts, handler |-> handler, parm |-> TRUE] :
         posts \in BOOLEAN, handler \in BOOLEAN }

(* Every failure everywhere, functions that call functions, sorts in the   *)
(* body, in functions and in the handler, within the discipline.           *)
Rich == Shape(Can(Kinds, Kinds, Checks, Checks, {}),
              {"body", "function"}, {"body", "function", "handler"})

(* Loops in sort procedures and in the handler, which go to BANK-ABEND.    *)
Looping == Shape(Can({"raise", "loop"}, {"step"}, {"step", "loop"}, {"loop"}, {}),
                 {"body", "function"}, {"body", "function"})

(* Declaratives that fail. *)
Declaring == Shape(Can({"raise", "step"}, {"step"}, {"step"}, {"step"}, {"step"}),
                   {"body", "function"}, {"body", "handler"})

(* Nothing of the discipline is kept. *)
Unruly == Shape(Can({"raise"}, {"raise"}, {"raise", "step", "loop"}, {"loop"}, {"loop"}),
                {"body", "procedure", "handler"}, {"body", "handler"})

(* Programs whose only failures are checks that lowering does not count. *)
StepOnly == Shape(Can({"step"}, {"step"}, {"step"}, {"step"}, {}),
                  {"body", "function"}, {"body"})

(* A program that fails only inside the functions it calls. *)
DeepOnly == Shape(Can({}, {"raise"}, {}, {}, {}), {"body", "function"}, {})

AllShapes == Rich \union Looping \union Declaring \union Unruly \union DeepOnly \union StepOnly
=============================================================================
