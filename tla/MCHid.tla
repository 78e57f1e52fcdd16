-------------------------------- MODULE MCHid --------------------------------
(* Instances of HidCorrect for TLC: who makes which calls, on what. *)
EXTENDS HidCorrect

CONSTANTS p1, p2

NoKey == {}
OneKey == {1}

\* A read of one chunk, and one of two.
OneRead == {<<1>>}
TwoReads == {<<1>>, <<1, 2>>}
OneLight == {1}

\* cmd/wiipointer: one goroutine waits for events, another one sets the LEDs.
\* Here the first one also drives the motor and reads the memory.
Duo == [p \in {p1, p2} |->
           IF p = p1 THEN {"Wait", "ReadAt"} ELSE {"SetLED"}]
Pointer == [p \in {p1, p2} |-> IF p = p1 THEN {"Wait"} ELSE {"SetLED"}]

\* One goroutine: the features and the motor, ...
Features == [p \in {p1} |->
               {"Poll", "Rumble", "OpenFeatures", "Close", "SetIRFull"}]

\* ... or everything that does not change the mode.
Plain == [p \in {p1} |->
            {"Poll", "Wait", "WaitFor", "Rumble", "SetLED", "ReadAt", "WriteAt"}]
=============================================================================
