----------------------------- MODULE PortalCaps -----------------------------
(***************************************************************************)
(* What a desktop advertises on its portals and what the clients ask for:  *)
(* the capability masks (platform-linux/src/caps.rs), the probe's report   *)
(* (portal.rs), and the options of the ScreenCast and RemoteDesktop        *)
(* clients.  A mask is a number; a decoded one is the set of its flags.    *)
(***************************************************************************)
EXTENDS Integers, Functions

Absent == -1  \* an interface the backend does not implement

Flag == [monitor |-> 1, window |-> 2, virtual |-> 4,
         keyboard |-> 1, pointer |-> 2, touchscreen |-> 4,
         hidden |-> 1, embedded |-> 2, metadata |-> 4]

SourceFlags == {"monitor", "window", "virtual"}
DeviceFlags == {"keyboard", "pointer", "touchscreen"}
CursorModes == {"hidden", "embedded", "metadata"}

\* bits & FLAG != 0
Has(bits, flag) == (bits \div Flag[flag]) % 2 = 1

SourceTypes(bits) == {f \in SourceFlags : Has(bits, f)}

\* Mutant of DeviceTypes: the mask of ScreenCast is used for devices.
DevicesByPosition(bits) == {f \in DeviceFlags : bits >= Flag[f]}

DeviceTypes(bits) == {f \in DeviceFlags : Has(bits, f)}

\* DeviceTypes::to_bits and CastOptions::type_bits
Bits(flags) ==
    LET bit(b) == IF \E f \in flags : Flag[f] = b THEN b ELSE 0 IN bit(1) + bit(2) + bit(4)

\* probe: a missing interface is None; a missing mask is 0, that is, no flag.
Probe(offer) ==
    [window  |-> offer.screenCast # Absent /\ "window" \in SourceTypes(offer.screenCast),
     receive |-> offer.remoteDesktop # Absent
                    /\ {"keyboard", "pointer"} \subseteq DeviceTypes(offer.remoteDesktop),
     capture |-> offer.inputCapture # Absent
                    /\ {"keyboard", "pointer"} \subseteq DeviceTypes(offer.inputCapture)]

\* SessionOptions::device_bits without a choice, and capture_test's request.
DeviceBits == Bits({"keyboard", "pointer"})

\* CastOptions::default: windows only.
CastTypeBits == Bits({"window"})

\* CursorMode::best_available: the first of the three that is offered.
BestCursor(available) ==
    IF Has(available, "metadata") THEN "metadata"
    ELSE IF Has(available, "embedded") THEN "embedded"
    ELSE IF Has(available, "hidden") THEN "hidden" ELSE "none"

\* A portal takes a request only for what it advertises (external).
Offered(bits, asked) == bits # Absent /\ \A f \in {1, 2, 4} :
                            (asked \div f) % 2 = 1 => (bits \div f) % 2 = 1
=============================================================================
