-------------------------- MODULE MCModbusGateway --------------------------
(* Instances of ModbusGateway for TLC: what the peer answers.              *)
EXTENDS ModbusGateway

DataOnly == {"data"}
=============================================================================
