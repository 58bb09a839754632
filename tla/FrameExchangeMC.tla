--------------------------- MODULE FrameExchangeMC ---------------------------
(* Lists in which every medium with a builder, and those without a name on the *)
(* wire, come first, in the middle and last, and one that repeats a medium     *)
(* without a handler.                                                          *)
EXTENDS FrameExchange

SomeLists ==
    {<<"WIFI_LAN", "WIFI_HOTSPOT", "WIFI_DIRECT">>,
     <<"AWDL", "USB", "BLUETOOTH">>,
     <<"WEB_RTC", "WIFI_AWARE", "WIFI_LAN">>,
     <<"WEB_RTC_NON_CELLULAR", "BLUETOOTH">>,
     <<"BLUETOOTH", "BLE_L2CAP", "AWDL">>,
     <<"USB", "BLUETOOTH", "USB">>}

ManyHandlers == Medium \ {"UNKNOWN_MEDIUM", "USB"}
EdgePorts == {-1, 0, 1, 65535, 65536}
EdgeLengths == {0, 4, 7, 8, 9, 16, 31, 32, 33, 63, 64}
EdgeSizes == {-2, -1, 0, 1, 2}
=============================================================================
