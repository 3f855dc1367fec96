----------------------------- MODULE RpcHandlers -----------------------------
(***************************************************************************)
(* The request handlers of a NestJS microservice.  A service answers each  *)
(* message with an async handler: every await in it is a point where other *)
(* handlers run, so a handler is a small process with its local variables. *)
(* A slot r \in Request is one such handler: "free", or in the middle of   *)
(* an operation, with the locals the rest of the operation reads.  The     *)
(* modules that EXTEND this one add the operations.                        *)
(***************************************************************************)
EXTENDS Naturals

CONSTANT Request   \* the handlers a service may have in flight at once

VARIABLE handler   \* handler[r]: where slot r stands, and its locals

(* HTTP status of the last answer of a slot; 0 where there was none. *)
Status == {0, 200, 400, 401, 404, 409, 500}

FreeSlot == [pc : {"free"}, reply : Status]

IsFree(r) == handler[r].pc = "free"

(* The handler goes on, past an await, with the given locals. *)
Continue(r, locals) == handler' = [handler EXCEPT ![r] = locals]

(***************************************************************************)
(* The handler ends.  AllRpcExceptionsFilter turns every exception into an *)
(* answer: an HttpException keeps its status, anything else is a 500.      *)
(***************************************************************************)
Reply(r, status) == Continue(r, [pc |-> "free", reply |-> status])

(* The database applied a write; its acknowledgement arrives, or is lost and the await
   rejects: the answer is then the status the service gives to such an error. *)
Written(r, failure) == Reply(r, 200) \/ Reply(r, failure)

(* An await rejects with nothing done (the database is unreachable), the first one of a
   request included: the handler ends with a 500. *)
AwaitFails(r) == Reply(r, 500)

InitHandlers == handler = [r \in Request |-> [pc |-> "free", reply |-> 0]]

(***************************************************************************)
(* The container dies and is started again (restart: always): the handlers *)
(* in flight are gone without an answer; the database is another process.  *)
(***************************************************************************)
Restart ==
  /\ \E r \in Request : ~IsFree(r)
  /\ handler' = [r \in Request |->
                   IF IsFree(r) THEN handler[r]
                                ELSE [pc |-> "free", reply |-> 0]]

==============================================================================
