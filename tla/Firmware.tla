------------------------------ MODULE Firmware ------------------------------
(***************************************************************************)
(* Three parts of the firmware that share nothing, checked side by side:   *)
(* a behaviour is one of the display on the I2C bus (LcdI2c), of the       *)
(* serial port (UartPort) or of the demo's key exchange (DemoFlow).        *)
(***************************************************************************)
EXTENDS LcdI2c, UartPort, DemoFlow

VARIABLE part
vars == <<part, lcdI2cVars, uartVars, demoVars>>

Init ==
    /\ part \in {"display", "serial port", "key exchange"}
    /\ LcdInit /\ UartInit /\ DemoInit
    /\ part # "display" =>
           app = "demo" /\ out = 0 /\ mode = 8

Next ==
    \/ part = "display" /\ LcdNext /\ UNCHANGED <<part, uartVars, demoVars>>
    \/ part = "serial port" /\ UartNext /\ UNCHANGED <<part, lcdI2cVars, demoVars>>
    \/ part = "key exchange" /\ DemoNext /\ UNCHANGED <<part, lcdI2cVars, uartVars>>

Spec == Init /\ [][Next]_vars
=============================================================================
