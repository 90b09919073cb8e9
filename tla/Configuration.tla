---------------------------- MODULE Configuration ----------------------------
(***************************************************************************)
(* The OCPP configuration keys: what a ChangeConfiguration request does to  *)
(* CPGetConfigurationResponse.  A key has a text, which GetConfiguration    *)
(* reports, and a value in force, which the tasks use; the handler sets     *)
(* both.  It finds the key by comparing prefixes in a fixed order, so a key *)
(* whose name extends that of an earlier one is taken for the earlier one.  *)
(*                                                                          *)
(* A text is modelled by what its conversions yield: atoi, the comparison   *)
(* with "true", and the measurand names strstr finds in it.                 *)
(***************************************************************************)
EXTENDS Integers, Functions

CONSTANTS
    Word,          \* numbers in force are unsigned and wrap at Word (2^32 on the controller)
    Instantiated   \* the keys an instance of the model keeps, all of Keys on the controller

Text(n, isTrue, names) == [n |-> n, isTrue |-> isTrue, names |-> names]
Number(n) == Text(n, FALSE, {})
Truth(b)  == Text(0, b, {})
Names(s)  == Text(0, FALSE, s)

SwitchKeys == {"AuthorizeRemoteTxRequests", "LocalAuthorizeOffline", "LocalPreAuthorize",
    "StopTransactionOnEVSideDisconnect", "StopTransactionOnInvalidId",
    "UnlockConnectorOnEVSideDisconnect", "AllowOfflineTxForUnknownId",
    "AuthorizationCacheEnabled", "LocalAuthListEnabled",
    "ReserveConnectorZeroSupported", "ConnectorSwitch3to1PhaseSupported"}

MeasurandKeys == {"MeterValuesAlignedData", "MeterValuesSampledData",
    "StopTxnAlignedData", "StopTxnSampledData", "SupportedFeatureProfiles"}

TextKeys == {"ConnectorPhaseRotation"}

\* Keys for which a zero, or a text that is no number, stands for a default.
ZeroMeans ==
    [k \in {"ConnectionTimeOut", "GetConfigurationMaxKeys", "HeartbeatInterval",
            "MeterValueSampleInterval", "NumberOfConnectors", "ResetRetries",
            "TransactionMessageAttempts", "TransactionMessageRetryInterval",
            "BlinkRepeat", "LightIntensity", "MinimumStatusDuration"} |->
        CASE k = "ConnectionTimeOut" -> 120
          [] k \in {"GetConfigurationMaxKeys", "HeartbeatInterval",
                    "TransactionMessageRetryInterval"} -> 60
          [] k = "MeterValueSampleInterval" -> 30
          [] k \in {"NumberOfConnectors", "TransactionMessageAttempts"} -> 1
          [] k = "ResetRetries" -> 3
          [] k = "BlinkRepeat" -> 500
          [] k = "LightIntensity" -> 100
          [] k = "MinimumStatusDuration" -> 2]

\* Keys whose number is capped.
AtMost ==
    [k \in {"MeterValuesAlignedDataMaxLength", "MeterValuesSampledDataMaxLength",
            "ConnectorPhaseRotationMaxLength", "StopTxnAlignedDataMaxLength",
            "StopTxnSampledDataMaxLength", "SupportedFeatureProfilesMaxLength"} |->
        CASE k = "ConnectorPhaseRotationMaxLength" -> 1
          [] k = "SupportedFeatureProfilesMaxLength" -> 6
          [] OTHER -> 5]

\* Keys whose number must lie in a range, and what it is otherwise.
Within ==
    [k \in {"WebSocketPingInterval", "LocalAuthListMaxLength", "SendLocalListMaxLength"} |->
        IF k = "WebSocketPingInterval" THEN [range |-> 10 .. 180, else |-> 30]
                                       ELSE [range |-> 1 .. 20, else |-> 10]]

PlainNumberKeys == {"MaxEnergyOnInvalidId", "ChargeProfileMaxStackLevel",
    "ChargingScheduleMaxPeriods", "MaxChargingProfilesInstalled"}

NumberKeys == {"ClockAlignedDataInterval"} \cup DOMAIN ZeroMeans \cup DOMAIN AtMost
              \cup DOMAIN Within \cup PlainNumberKeys

Keys == SwitchKeys \cup MeasurandKeys \cup TextKeys \cup NumberKeys

ASSUME ConfigurationAssumption ==
    /\ Word \in Nat /\ Word > 1000
    /\ Instantiated \subseteq Keys /\ "HeartbeatInterval" \in Instantiated

ReadOnly == {"GetConfigurationMaxKeys", "NumberOfConnectors", "SupportedFeatureProfiles",
    "LocalAuthListMaxLength", "SendLocalListMaxLength", "ReserveConnectorZeroSupported",
    "ChargeProfileMaxStackLevel", "ChargingScheduleMaxPeriods",
    "ConnectorSwitch3to1PhaseSupported", "MaxChargingProfilesInstalled"} \cup DOMAIN AtMost

\* The branch of the handler that a key reaches: memcmp compares only as many
\* characters as the known key has, and the shorter names come first.
Branch(k) ==
    CASE k = "MeterValuesAlignedDataMaxLength"   -> "MeterValuesAlignedData"
      [] k = "MeterValuesSampledDataMaxLength"   -> "MeterValuesSampledData"
      [] k = "ConnectorPhaseRotationMaxLength"   -> "ConnectorPhaseRotation"
      [] k = "StopTxnAlignedDataMaxLength"       -> "StopTxnAlignedData"
      [] k = "StopTxnSampledDataMaxLength"       -> "StopTxnSampledData"
      [] k = "SupportedFeatureProfilesMaxLength" -> "SupportedFeatureProfiles"
      [] OTHER -> k

\* The number a key takes when asked for n.
Adjusted(k, n) ==
    CASE k = "ClockAlignedDataInterval" -> IF n \in 1 .. 29 THEN 30 ELSE n
      [] k \in DOMAIN ZeroMeans -> IF n = 0 THEN ZeroMeans[k] ELSE n
      [] k \in DOMAIN AtMost -> IF n > AtMost[k] THEN AtMost[k] ELSE n
      [] k \in DOMAIN Within -> IF n \in Within[k].range THEN n ELSE Within[k].else
      [] OTHER -> n

\* The value that a text puts in force, whatever the limits of the key.
InForce(k, t) ==
    CASE k \in SwitchKeys -> t.isTrue
      [] k \in MeasurandKeys -> t.names
      [] k \in TextKeys -> t
      [] OTHER -> t.n % Word

\* The text that is kept: the one received, or that of the number that replaces it.
KeptText(k, t) ==
    LET n == t.n % Word
    IN IF k \in NumberKeys /\ Adjusted(k, n) # n THEN Number(Adjusted(k, n)) ELSE t

Measurands == {"Energy", "Power", "Voltage", "Current", "Temperature"}
Features   == {"Core", "LocalAuthListManagement", "Reservation", "RemoteTrigger",
               "FirmwareManagement", "SmartCharging"}

DefaultNumber(k) ==
    CASE k = "ClockAlignedDataInterval" -> 600
      [] k = "GetConfigurationMaxKeys" -> 50
      [] k = "HeartbeatInterval" -> 30
      [] k = "TransactionMessageAttempts" -> 2
      [] k = "MinimumStatusDuration" -> 900
      [] k = "MaxEnergyOnInvalidId" -> 0
      [] k = "ChargingScheduleMaxPeriods" -> 20
      [] k \in {"ChargeProfileMaxStackLevel", "MaxChargingProfilesInstalled"} -> 100
      [] k \in DOMAIN AtMost -> AtMost[k]
      [] k \in DOMAIN Within -> Within[k].else
      [] OTHER -> ZeroMeans[k]

DefaultText(k) ==
    CASE k \in NumberKeys -> Number(DefaultNumber(k))
      [] k = "SupportedFeatureProfiles" -> Names(Features)
      [] k \in MeasurandKeys -> Names(Measurands)
      [] k \in TextKeys -> Names({"NotApplicable"})
      [] OTHER -> Truth(k \notin {"AuthorizeRemoteTxRequests", "AllowOfflineTxForUnknownId",
                        "ReserveConnectorZeroSupported", "ConnectorSwitch3to1PhaseSupported"})

\* SetDefaultOcppConfig on an erased flash.  The text lists a feature that is off.
DefaultConfig ==
    [text  |-> [k \in Instantiated |-> DefaultText(k)],
     force |-> [k \in Instantiated |-> IF k = "SupportedFeatureProfiles"
                                       THEN Features \ {"SmartCharging"}
                                       ELSE InForce(k, DefaultText(k))]]

Writable(k) == Branch(k) \in Instantiated \ ReadOnly

\* The configuration after a ChangeConfiguration request for key k with text t.
Changed(conf, k, t) ==
    IF Writable(k)
    THEN LET b == Branch(k) kept == KeptText(Branch(k), t)
         IN [text |-> [conf.text EXCEPT ![b] = kept],
             force |-> [conf.force EXCEPT ![b] = InForce(b, kept)]]
    ELSE conf

\* BootNotificationResponseProcess: the interval the central system gives, unchecked.
Booted(conf, interval) ==
    [text |-> [conf.text EXCEPT !["HeartbeatInterval"] = Number(interval)],
     force |-> [conf.force EXCEPT !["HeartbeatInterval"] = interval]]

\* Connector0Task before its loop: at least ten seconds in force, the text stays.
Started(conf) ==
    IF conf.force["HeartbeatInterval"] < 10
    THEN [conf EXCEPT !.force["HeartbeatInterval"] = 10]
    ELSE conf
=============================================================================
