---------------------------- MODULE MCMqttTcpip ----------------------------
EXTENDS MqttTcpip
=============================================================================
