---------------------------- MODULE WorkerStore ----------------------------
(* The documents of the workers_store (MongoDB) and what the class methods  *)
(* of models.Worker do to one of them.  Every write of the code goes        *)
(* through store.py and is atomic on one document; most of them are         *)
(* upserts, so a write to a document that was deleted creates it again      *)
(* without the fields that other writes had set: a ghost.                   *)

(* "NULL" stands for a status that is missing, or was set to null: a Mongo  *)
(* filter {'status': None} matches both.                                    *)
Statuses == {"REQUESTED", "SPAWNER_SETUP", "PULLING_IMAGE",
             "CREATING_CONTAINER", "UPDATING_STORE", "READY", "BUSY",
             "SHUTDOWN_REQUESTED", "SHUTTING_DOWN", "NULL"}

(* A document: whether it is in the store, its status, whether it carries   *)
(* the actor_id that get_workers() filters on (owned), and the host_id that *)
(* get_tot_workers() counts (hosted).                                       *)
Doc == [exists : BOOLEAN, status : Statuses, owned : BOOLEAN, hosted : BOOLEAN]

Absent == [exists |-> FALSE, status |-> "NULL", owned |-> FALSE, hosted |-> FALSE]

(* ensure_one_worker() and request_worker() write this under a fresh id.    *)
RequestedDoc ==
    [exists |-> TRUE, status |-> "REQUESTED", owned |-> TRUE, hosted |-> FALSE]

(* store[key, 'status'] = s : an upsert of one field.                       *)
StatusUpsert(doc, s) == [doc EXCEPT !.exists = TRUE, !.status = s]

(* store[key, 'last_execution_time'] = now, and the health check time.      *)
TouchUpsert(doc) == [doc EXCEPT !.exists = TRUE]

(* The statuses a conditional update finds acceptable.  A target with one   *)
(* predecessor is queried as {'$or': [predecessor, None]}, and None matches *)
(* a document without a status; READY has two predecessors.                 *)
ValidFrom ==
    [SPAWNER_SETUP      |-> {"REQUESTED", "NULL"},
     PULLING_IMAGE      |-> {"SPAWNER_SETUP", "NULL"},
     CREATING_CONTAINER |-> {"PULLING_IMAGE", "NULL"},
     UPDATING_STORE     |-> {"CREATING_CONTAINER", "NULL"},
     READY              |-> {"UPDATING_STORE", "BUSY"},
     BUSY               |-> {"READY", "NULL"}]

(* update_worker_status(): the two shutdown statuses are upserts, any other *)
(* is conditional and without upsert.  An invalid transition raises an      *)
(* exception that the method itself swallows, so it reads as no change.     *)
UpdateWorkerStatus(doc, s) ==
    IF s \in {"SHUTTING_DOWN", "SHUTDOWN_REQUESTED"} THEN StatusUpsert(doc, s)
    ELSE IF doc.exists /\ doc.status \in ValidFrom[s]
         THEN [doc EXCEPT !.status = s]
         ELSE doc

(* add_worker(): an upsert that sets every field of the Worker object.      *)
(* Worker has no actor_id parameter, so a document that was deleted in the  *)
(* meantime comes back without its actor_id.                                *)
AddWorker(doc) ==
    [doc EXCEPT !.exists = TRUE, !.status = "READY", !.hosted = TRUE]

(* get_worker() followed by worker['id']: only the two whole-document       *)
(* writes above set the id, an upserted ghost has none.                     *)
HasId(doc) == doc.exists /\ (doc.owned \/ doc.hosted)

=============================================================================
