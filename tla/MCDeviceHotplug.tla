-------------------------- MODULE MCDeviceHotplug --------------------------
(* Small instances of DeviceHotplug for TLC. *)
EXTENDS DeviceHotplug
=============================================================================
