-------------------------- MODULE MCDeviceWorkflow --------------------------
EXTENDS DeviceWorkflow
=============================================================================
