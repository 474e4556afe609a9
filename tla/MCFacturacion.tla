----------------------------- MODULE MCFacturacion -----------------------------
EXTENDS FacturacionPlataforma
=============================================================================
