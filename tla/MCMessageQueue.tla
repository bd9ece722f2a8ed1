--------------------------- MODULE MCMessageQueue ---------------------------
(* MessageQueue with two competing callers of get_sample.  The bounds keep *)
(* the number of samples, versions and unread validation results finite.   *)
EXTENDS MessageQueue

CONSTANTS MaxProduced,   (* bound: how many samples are put                *)
          MaxVersion     (* bound: versions, and unread validation results *)

WithinBounds ==
    /\ total_produced <= MaxProduced
    /\ mq_param_version <= MaxVersion
    /\ Len(val_queue) <= MaxVersion

MCNext == MQNext /\ WithinBounds'

MCSpec == MQInit /\ [][MCNext]_mqVars /\ MQFairness
=============================================================================
