--------------------------- MODULE MCKyberDriver ---------------------------
(***************************************************************************)
(* A small instance of KyberDriver.  Before the driver's calls, a program  *)
(* without the driver starts and resets any operations, with one datum of  *)
(* its own in the seed, the secret key and the shared secret.  It leaves   *)
(* the interrupt disabled, which only irq_o and a read of IRQ_ENABLE show. *)
(***************************************************************************)
EXTENDS KyberDriver

MCOtherRequests ==
  {r \in AnyRequest :
     IF r.we THEN /\ r.tok \in {1, Torn} /\ r.adr \notin {"PK", "CT"}
                  /\ r.adr = "IRQ_ENABLE" => ~r.bit
             ELSE r.adr \in {"STATUS", "SS", "unmapped"}}
=============================================================================
